---- MODULE Spec2Model ----
(***************************************************************************)
(* Gesture state-machine engines of myMediapipe: the transition, fixed and *)
(* moving dynamic-gesture calculators.  Each calculator is a frame-driven  *)
(* state machine: one Process call per input frame.                        *)
(*                                                                         *)
(* Time is counted in ticks (one tick stands for 0.5 s of                  *)
(* InputTimestamp().Seconds()); angles and positions are integers in the   *)
(* unit of the configured thresholds.  Only comparisons, differences and   *)
(* one truncating division are applied to them in the code.                *)
(***************************************************************************)
EXTENDS Integers, Sequences, FiniteSets, TLC

\* ------------------------------------------------------------------ bounds
\* Last timestamp a frame may carry.
MaxTime == 6
\* Largest gap between two consecutive frames (the producer may skip ticks).
MaxDt == 2

\* ------------------------------------------------------------ shared parts
\* The label of a frame whose DETECTIONS input is empty.
EmptyDetection == -1

\* Timestamp of the frame "before the first one".
NoFrameYet == -1

\* Timestamps a next frame may carry: strictly after the previous one.
NextTimestamps(prev) == { t \in (prev + 1)..(prev + MaxDt) : t <= MaxTime }

\* Timestamp::NextAllowedInStream(): the smallest timestamp after ts.
InputTimestampItself(ts) == [base |-> ts, plus |-> 0]
NextAllowedInStream(ts) == [base |-> ts, plus |-> 1]

Mqtt_Message(topic, payload) == [topic |-> topic, payload |-> payload]

\* ----------------------------------------------------- transition engine
VARIABLES
  tr_options,              \* options_ (+ actionsMap loaded from it in Open)
  tr_currentAction,        \* currentAction
  tr_startingGestureTime,  \* startingGestureTime
  tr_mqttMessages,         \* mqttMessages (member buffer)
  tr_frame,                \* the last frame handed to Process
  tr_pre,                  \* engine state at the top of that Process call
  tr_outMqtt,              \* packets added to MQTT_MESSAGE by that call
  tr_outFlag               \* packets added to FLAG by that call

tr_vars == << tr_options, tr_currentAction, tr_startingGestureTime,
              tr_mqttMessages, tr_frame, tr_pre, tr_outMqtt, tr_outFlag >>

\* (struct _actions){0}
TrEmptyAction ==
  [startAction |-> 0, endAction |-> 0, topic |-> "", payload |-> "",
   notEmpty |-> FALSE]

\* One loaded entry of actionsMap (Open sets notEmpty).
TrAction(s, e, topic, payload) ==
  [startAction |-> s, endAction |-> e, topic |-> topic, payload |-> payload,
   notEmpty |-> TRUE]

\* The example configuration of the source, time_out_s: 1.50.
TrOptionsExample ==
  [time_out_s |-> 3,
   actions_map |-> << TrAction(0, 2, "tv", "KEY_POWER"),
                      TrAction(2, 0, "tv", "KEY_POWER_B") >>]

\* Two entries with the same start id, and a pair whose start equals its end.
TrOptionsShared ==
  [time_out_s |-> 2,
   actions_map |-> << TrAction(0, 2, "tv", "KEY_A"),
                      TrAction(0, 3, "amp", "KEY_B"),
                      TrAction(3, 3, "tv", "KEY_C") >>]

TrOptionsSet == { TrOptionsExample, TrOptionsShared }

\* Labels the detection stream may carry (4 is configured nowhere).
TrLabels == { 0, 2, 3, 4 }

\* clear(currentAction, startingGestureTime)
TrClear == [currentAction |-> TrEmptyAction, startingGestureTime |-> 0]

\* An arming loop that copies the matching entry and does not stamp
\* startingGestureTime.
RECURSIVE TrScanNoStamp(_, _, _, _, _)
TrScanNoStamp(actionsMap, i, label_id, ts, st) ==
  IF i > Len(actionsMap) THEN st
  ELSE TrScanNoStamp(actionsMap, i + 1, label_id, ts,
                     IF actionsMap[i].startAction = label_id
                       THEN [currentAction |-> actionsMap[i],
                             startingGestureTime |-> st.startingGestureTime]
                       ELSE st)

\* The arming loop: every entry whose startAction equals the label is copied
\* in turn into currentAction and stamps startingGestureTime.
RECURSIVE TrScan(_, _, _, _, _)
TrScan(actionsMap, i, label_id, ts, st) ==
  IF i > Len(actionsMap) THEN st
  ELSE TrScan(actionsMap, i + 1, label_id, ts,
              IF actionsMap[i].startAction = label_id
                THEN [currentAction |-> actionsMap[i],
                      startingGestureTime |-> ts]
                ELSE st)

\* The timeout test of the armed branch.
TrTimedOutEarly(ts, startTime, time_out_s) == (ts - startTime) >= time_out_s - 1
TrTimedOutLate(ts, startTime, time_out_s) == (ts - startTime) > time_out_s
TrTimedOut(ts, startTime, time_out_s) == (ts - startTime) >= time_out_s

\* The test that fires the command.
TrFiresOnStart(cur, label_id) == cur.notEmpty /\ label_id = cur.startAction
TrFires(cur, label_id) == cur.notEmpty /\ label_id = cur.endAction

\* Process whose arming branch falls through to the armed branch: the frame
\* that arms the engine is tested against the end id at once.
TrProcessResultFallsThrough(options, cur, startTime, msgs, ts, label_id) ==
  LET st0 == [currentAction |-> cur, startingGestureTime |-> startTime]
      scanned == TrScan(options.actions_map, 1, label_id, ts, st0)
      st1 == IF cur.notEmpty
               THEN IF TrTimedOut(ts, startTime, options.time_out_s)
                      THEN TrClear ELSE st0
               ELSE IF ~scanned.currentAction.notEmpty THEN TrClear
                    ELSE scanned
      fires == TrFires(st1.currentAction, label_id)
      st2 == IF fires THEN TrClear ELSE st1
  IN  [currentAction |-> st2.currentAction,
       startingGestureTime |-> st2.startingGestureTime,
       mqttMessages |-> IF fires THEN << >> ELSE msgs,
       outMqtt |-> IF fires
                     THEN << [at |-> NextAllowedInStream(ts),
                              value |-> Append(msgs,
                                          Mqtt_Message(st1.currentAction.topic,
                                                       st1.currentAction.payload))] >>
                     ELSE << >>,
       outFlag |-> IF ~st2.currentAction.notEmpty
                     THEN << [at |-> NextAllowedInStream(ts), value |-> TRUE] >>
                     ELSE << >>]

\* Process that runs the arming loop again at the end of a call that cleared
\* the engine (timeout or command).
TrProcessResultRearms(options, cur, startTime, msgs, ts, label_id) ==
  LET st0 == [currentAction |-> cur, startingGestureTime |-> startTime]
      st1 == IF cur.notEmpty
                  /\ TrTimedOut(ts, startTime, options.time_out_s)
               THEN TrClear ELSE st0
      fires == cur.notEmpty /\ TrFires(st1.currentAction, label_id)
      st2 == IF fires THEN TrClear ELSE st1
      scanned == TrScan(options.actions_map, 1, label_id, ts, st2)
      st3 == IF st2.currentAction.notEmpty THEN st2
             ELSE IF ~scanned.currentAction.notEmpty THEN TrClear
             ELSE scanned
  IN  [currentAction |-> st3.currentAction,
       startingGestureTime |-> st3.startingGestureTime,
       mqttMessages |-> IF fires THEN << >> ELSE msgs,
       outMqtt |-> IF fires
                     THEN << [at |-> NextAllowedInStream(ts),
                              value |-> Append(msgs,
                                          Mqtt_Message(st1.currentAction.topic,
                                                       st1.currentAction.payload))] >>
                     ELSE << >>,
       outFlag |-> IF ~st3.currentAction.notEmpty
                     THEN << [at |-> NextAllowedInStream(ts), value |-> TRUE] >>
                     ELSE << >>]

\* Process with a non-empty DETECTIONS input.  The result is the engine
\* state after the call and the packets the call added to its outputs.
TrProcessResult(options, cur, startTime, msgs, ts, label_id) ==
  LET st0 == [currentAction |-> cur, startingGestureTime |-> startTime]
      idleBranch ==
        LET scanned == TrScan(options.actions_map, 1, label_id, ts, st0)
        IN  [st   |-> IF ~scanned.currentAction.notEmpty THEN TrClear
                      ELSE scanned,
             msgs |-> msgs,
             outMqtt |-> << >>]
      armedBranch ==
        LET st1 == IF TrTimedOut(ts, startTime, options.time_out_s)
                     THEN TrClear ELSE st0
        IN  IF TrFires(st1.currentAction, label_id)
              THEN LET batch == Append(msgs,
                                  Mqtt_Message(st1.currentAction.topic,
                                               st1.currentAction.payload))
                   IN  [st   |-> TrClear,
                        msgs |-> << >>,
                        outMqtt |-> << [at |-> NextAllowedInStream(ts),
                                        value |-> batch] >>]
              ELSE [st |-> st1, msgs |-> msgs, outMqtt |-> << >>]
      r == IF ~cur.notEmpty THEN idleBranch ELSE armedBranch
  IN  [currentAction |-> r.st.currentAction,
       startingGestureTime |-> r.st.startingGestureTime,
       mqttMessages |-> r.msgs,
       outMqtt |-> r.outMqtt,
       outFlag |-> IF ~r.st.currentAction.notEmpty
                     THEN << [at |-> NextAllowedInStream(ts), value |-> TRUE] >>
                     ELSE << >>]

TrInit(configs) ==
  /\ tr_options \in configs
  /\ tr_currentAction = TrEmptyAction
  /\ tr_startingGestureTime = 0
  /\ tr_mqttMessages = << >>
  /\ tr_frame = [ts |-> NoFrameYet, label_id |-> EmptyDetection]
  /\ tr_pre = [currentAction |-> TrEmptyAction, startingGestureTime |-> 0]
  /\ tr_outMqtt = << >>
  /\ tr_outFlag = << >>

\* A Process that measures elapsed time on a clock of its own, which may run
\* ahead of the input timestamp.
TransitionProcessWallClock ==
  \E ts \in NextTimestamps(tr_frame.ts), label_id \in TrLabels,
     now \in { 0, 1 } :
    \E r \in { TrProcessResult(tr_options, tr_currentAction,
                                tr_startingGestureTime, tr_mqttMessages,
                                ts + now, label_id) } :
        /\ tr_frame' = [ts |-> ts, label_id |-> label_id]
        /\ tr_pre' = [currentAction |-> tr_currentAction,
                      startingGestureTime |-> tr_startingGestureTime]
        /\ tr_currentAction' = r.currentAction
        /\ tr_startingGestureTime' = r.startingGestureTime
        /\ tr_mqttMessages' = r.mqttMessages
        /\ tr_outMqtt' = r.outMqtt
        /\ tr_outFlag' = r.outFlag
        /\ UNCHANGED tr_options

\* One call of Process on the frame (ts, label_id), DETECTIONS not empty.
TransitionFrame(ts, label_id) ==
  \E r \in { TrProcessResult(tr_options, tr_currentAction,
                              tr_startingGestureTime, tr_mqttMessages,
                              ts, label_id) } :
      /\ tr_frame' = [ts |-> ts, label_id |-> label_id]
      /\ tr_pre' = [currentAction |-> tr_currentAction,
                    startingGestureTime |-> tr_startingGestureTime]
      /\ tr_currentAction' = r.currentAction
      /\ tr_startingGestureTime' = r.startingGestureTime
      /\ tr_mqttMessages' = r.mqttMessages
      /\ tr_outMqtt' = r.outMqtt
      /\ tr_outFlag' = r.outFlag
      /\ UNCHANGED tr_options

\* transitionDynamicGesturesCalculator::Process, DETECTIONS not empty.
TransitionProcess ==
  \E ts \in NextTimestamps(tr_frame.ts), label_id \in TrLabels :
    TransitionFrame(ts, label_id)

\* A Process that handles an empty DETECTIONS input like a label no pair
\* uses.
TransitionProcessEmptyAsLabel ==
  \E ts \in NextTimestamps(tr_frame.ts) :
    \E r \in { TrProcessResult(tr_options, tr_currentAction,
                                tr_startingGestureTime, tr_mqttMessages,
                                ts, EmptyDetection) } :
        /\ tr_frame' = [ts |-> ts, label_id |-> EmptyDetection]
        /\ tr_pre' = [currentAction |-> tr_currentAction,
                      startingGestureTime |-> tr_startingGestureTime]
        /\ tr_currentAction' = r.currentAction
        /\ tr_startingGestureTime' = r.startingGestureTime
        /\ tr_mqttMessages' = r.mqttMessages
        /\ tr_outMqtt' = r.outMqtt
        /\ tr_outFlag' = r.outFlag
        /\ UNCHANGED tr_options

\* transitionDynamicGesturesCalculator::Process, DETECTIONS empty: the call
\* returns at once.
TransitionFrameEmpty(ts) ==
  /\ tr_frame' = [ts |-> ts, label_id |-> EmptyDetection]
  /\ tr_pre' = [currentAction |-> tr_currentAction,
                startingGestureTime |-> tr_startingGestureTime]
  /\ tr_outMqtt' = << >>
  /\ tr_outFlag' = << >>
  /\ UNCHANGED << tr_options, tr_currentAction, tr_startingGestureTime,
                  tr_mqttMessages >>

TransitionProcessEmpty ==
  \E ts \in NextTimestamps(tr_frame.ts) : TransitionFrameEmpty(ts)

\* ---------------------------------------------------------- fixed engine
VARIABLES
  fx_options,        \* options_
  fx_currentAction,  \* currentAction (a fixedActionMap message)
  fx_lastGesture,    \* lastGesture
  fx_mqttMessages,   \* mqttMessages (member buffer)
  fx_status,         \* "ok", or "error" once a Process call returned an error
  fx_frame,          \* the last frame handed to Process
  fx_pre,            \* engine state at the top of that Process call
  fx_outMqtt,        \* packets added to MQTT_MESSAGE by that call
  fx_outFlag,        \* packets added to FLAG by that call
  fx_hold            \* history: the current run of frames with one label

fx_vars == << fx_options, fx_currentAction, fx_lastGesture, fx_mqttMessages,
              fx_status, fx_frame, fx_pre, fx_outMqtt, fx_outFlag, fx_hold >>

\* Landmark ids of a frame (positional, 0-based).
LandmarkIds == { 0, 1 }

\* Angle readings a frame may carry for either slot of a landmark.
AngleVals == { -3, -1, 2, 4 }

\* A fixedActionMap message after Clear(): every field at its default.
FxClearedAction ==
  [has_start_action |-> FALSE, start_action |-> 0,
   has_landmark_id |-> FALSE, landmark_id |-> 0,
   has_angle_number |-> FALSE, angle_number |-> 0,
   angle_limits |-> << >>,
   time_between_actions |-> 0, auto_repeat |-> FALSE,
   mqtt_message |-> << >>]

\* A configured action that has no angle precondition.
FxPlainAction(start, tba, rep, msg) ==
  [has_start_action |-> TRUE, start_action |-> start,
   has_landmark_id |-> FALSE, landmark_id |-> 0,
   has_angle_number |-> FALSE, angle_number |-> 0,
   angle_limits |-> << >>,
   time_between_actions |-> tba, auto_repeat |-> rep,
   mqtt_message |-> << msg >>]

\* A configured action gated on the angle of (landmark lm, slot num).
FxAngleAction(start, lm, num, limits, tba, rep, msgs) ==
  [has_start_action |-> TRUE, start_action |-> start,
   has_landmark_id |-> TRUE, landmark_id |-> lm,
   has_angle_number |-> TRUE, angle_number |-> num,
   angle_limits |-> limits,
   time_between_actions |-> tba, auto_repeat |-> rep,
   mqtt_message |-> msgs]

AngleLimit(neg, pos) == [angle_limit_neg |-> neg, angle_limit_pos |-> pos]

\* Two windows that share the reading -1.
FxWindows == << AngleLimit(-3, -1), AngleLimit(-1, 2) >>

\* The shape of the example configuration of the source: a one-shot action
\* and an auto-repeating angle action whose interval equals the timeout.
FxOptionsExample ==
  [fixed_time_out_s |-> 3,
   fixed_actions_map |->
     << FxPlainAction(1, 6, FALSE, Mqtt_Message("tv", "KEY_MUTE")),
        FxAngleAction(3, 0, 1, FxWindows, 3, TRUE,
                      << Mqtt_Message("tv", "KEY_VOLUMEDOWN"),
                         Mqtt_Message("tv", "KEY_VOLUMEUP") >>) >>]

\* Auto-repeat with an interval below the timeout (1.0 s against 1.5 s), for
\* a plain action and for an angle action reading the second slot of
\* landmark 1, and a one-shot action.
FxOptionsRepeat ==
  [fixed_time_out_s |-> 3,
   fixed_actions_map |->
     << FxPlainAction(1, 2, TRUE, Mqtt_Message("tv", "KEY_NEXT")),
        FxAngleAction(3, 1, 2, FxWindows, 2, TRUE,
                      << Mqtt_Message("amp", "KEY_DOWN"),
                         Mqtt_Message("amp", "KEY_UP") >>),
        FxPlainAction(4, 1, FALSE, Mqtt_Message("tv", "KEY_OK")) >>]

\* Auto-repeat with an interval above the timeout, and two entries that
\* share a start id.
FxOptionsShort ==
  [fixed_time_out_s |-> 2,
   fixed_actions_map |->
     << FxPlainAction(1, 4, TRUE, Mqtt_Message("tv", "KEY_PLAY")),
        FxPlainAction(3, 1, FALSE, Mqtt_Message("tv", "KEY_A")),
        FxPlainAction(3, 1, TRUE, Mqtt_Message("amp", "KEY_B")) >>]

FxOptionsSet == { FxOptionsExample, FxOptionsRepeat, FxOptionsShort }

\* A configuration whose angle action has two windows and one payload.
FxOptionsMismatch ==
  [fixed_time_out_s |-> 3,
   fixed_actions_map |->
     << FxPlainAction(1, 2, TRUE, Mqtt_Message("tv", "KEY_MUTE")),
        FxAngleAction(3, 0, 1, FxWindows, 2, TRUE,
                      << Mqtt_Message("tv", "KEY_VOLUMEDOWN") >>) >>]

\* A configuration that uses the literal topic "empty": for a plain action,
\* and for the second window of an angle action.
FxOptionsSentinel ==
  [fixed_time_out_s |-> 3,
   fixed_actions_map |->
     << FxPlainAction(1, 1, TRUE, Mqtt_Message("empty", "KEY_MUTE")),
        FxAngleAction(3, 0, 1, FxWindows, 1, TRUE,
                      << Mqtt_Message("tv", "KEY_VOLUMEDOWN"),
                         Mqtt_Message("empty", "KEY_VOLUMEUP") >>),
        FxPlainAction(4, 1, TRUE, Mqtt_Message("tv", "KEY_OK")) >>]

\* Labels the detection stream may carry (4 is configured in one
\* configuration only).
FxLabels == { 1, 3, 4 }

\* The ANGLES input of a frame: one (angle1, angle2) pair per landmark.  A
\* frame carries two readings x and y, landmark 0 as (x, y) and landmark 1 as
\* (y, x), so every (landmark, slot) selector can read every value and two
\* selectors can read different values in one frame.
AnglesInputs ==
  { [l \in LandmarkIds |->
       IF l = 0 THEN [angle1 |-> x, angle2 |-> y]
                ELSE [angle1 |-> y, angle2 |-> x]] : x \in AngleVals, y \in AngleVals }

\* fixedActionMap::IsInitialized(): the required field start_action is set.
\* The message is declared in fixed_dynamic_gestures_calculator.proto; a
\* configured entry carries start_action and a message after Clear() does
\* not, which is the Armed / Idle distinction Process relies on.
FxIsInitialized(act) == act.has_start_action

\* (struct LastGesture){0}
FxEmptyLastGesture == [start_action |-> 0, time |-> 0, notEmpty |-> FALSE]

\* clear(currentAction, lastGesture)
FxClearActionOnly(cur, last) ==
  [currentAction |-> FxClearedAction, lastGesture |-> last]
FxClear(cur, last) ==
  [currentAction |-> FxClearedAction, lastGesture |-> FxEmptyLastGesture]

\* The engine as constructed: nothing armed, no firing recorded.
FxIdleState ==
  [currentAction |-> FxClearedAction, lastGesture |-> FxEmptyLastGesture]

\* setLastGesture(lastGesture, currentAction, lastGestureTime)
setLastGesture(currentAction, lastGestureTime) ==
  [start_action |-> currentAction.start_action, time |-> lastGestureTime,
   notEmpty |-> TRUE]

\* getAngle(angleNumber, lmId, angles)
getAngle(angleNumber, lmId, angles) ==
  IF angleNumber = 1 THEN angles[lmId].angle1 ELSE angles[lmId].angle2

\* The window test of executeAction.
FxInWindow(currAngle, limit) ==
  currAngle <= limit.angle_limit_pos /\ currAngle >= limit.angle_limit_neg

\* The window loop of executeAction: every matching window overwrites the
\* candidate command.
RECURSIVE FxSelectFirst(_, _, _, _)
FxSelectFirst(act, i, currAngle, cmd) ==
  IF i > Len(act.angle_limits) THEN cmd
  ELSE IF FxInWindow(currAngle, act.angle_limits[i])
         THEN act.mqtt_message[i]
         ELSE FxSelectFirst(act, i + 1, currAngle, cmd)
RECURSIVE FxSelect(_, _, _, _)
FxSelect(act, i, currAngle, cmd) ==
  IF i > Len(act.angle_limits) THEN cmd
  ELSE FxSelect(act, i + 1, currAngle,
                IF FxInWindow(currAngle, act.angle_limits[i])
                  THEN act.mqtt_message[i]
                  ELSE cmd)

\* The command executeAction selects; topic "empty" marks "none selected".
FxCommand(act, angles) ==
  LET unset == Mqtt_Message("empty", "")
  IN  IF act.has_landmark_id
        THEN FxSelect(act, 1,
                      getAngle(act.angle_number, act.landmark_id, angles),
                      unset)
        ELSE act.mqtt_message[1]

\* fixedDynamicGesturesCalculator::executeAction
executeActionKeepsArmed(currentAction, lastGesture, msgs, GestureTime, angles) ==
  LET currCommand == FxCommand(currentAction, angles)
      emits == currCommand.topic # "empty"
  IN  [currentAction |-> currentAction,
       lastGesture |-> IF emits THEN setLastGesture(currentAction, GestureTime)
                       ELSE lastGesture,
       mqttMessages |-> << >>,
       outMqtt |-> IF emits
                     THEN << [at |-> NextAllowedInStream(GestureTime),
                              value |-> Append(msgs, currCommand)] >>
                     ELSE << >>]
executeActionAlwaysRecords(currentAction, lastGesture, msgs, GestureTime, angles) ==
  LET currCommand == FxCommand(currentAction, angles)
      emits == currCommand.topic # "empty"
  IN  [currentAction |-> FxClearedAction,
       lastGesture |-> setLastGesture(currentAction, GestureTime),
       mqttMessages |-> << >>,
       outMqtt |-> IF emits
                     THEN << [at |-> NextAllowedInStream(GestureTime),
                              value |-> Append(msgs, currCommand)] >>
                     ELSE << >>]
\* executeAction without the test of the topic: whatever was selected is
\* emitted and recorded.
executeActionNoSentinel(currentAction, lastGesture, msgs, GestureTime, angles) ==
  LET currCommand == FxCommand(currentAction, angles)
  IN  [currentAction |-> FxClearedAction,
       lastGesture |-> setLastGesture(currentAction, GestureTime),
       mqttMessages |-> << >>,
       outMqtt |-> << [at |-> NextAllowedInStream(GestureTime),
                       value |-> Append(msgs, currCommand)] >>]

executeAction(currentAction, lastGesture, msgs, GestureTime, angles) ==
  LET currCommand == FxCommand(currentAction, angles)
      emits == currCommand.topic # "empty"
  IN  [currentAction |-> FxClearedAction,
       lastGesture |-> IF emits THEN setLastGesture(currentAction, GestureTime)
                       ELSE lastGesture,
       mqttMessages |-> << >>,
       outMqtt |-> IF emits
                     THEN << [at |-> NextAllowedInStream(GestureTime),
                              value |-> Append(msgs, currCommand)] >>
                     ELSE << >>]

\* The arming loop of Process: every entry whose start_action equals the
\* label is copied in turn into currentAction; an entry with a landmark_id
\* is validated as it is copied and a failed RET_CHECK returns from Process.
RECURSIVE FxScan(_, _, _, _)
FxScan(actions, i, label_id, st) ==
  IF i > Len(actions) THEN st
  ELSE IF actions[i].start_action # label_id
         THEN FxScan(actions, i + 1, label_id, st)
         ELSE IF /\ actions[i].has_landmark_id
                 /\ \/ ~actions[i].has_angle_number
                    \/ Len(actions[i].angle_limits) # Len(actions[i].mqtt_message)
                THEN [currentAction |-> actions[i], failed |-> TRUE]
                ELSE FxScan(actions, i + 1, label_id,
                            [currentAction |-> actions[i], failed |-> FALSE])

\* The auto-repeat test of Process.
FxRepeatDueAlways(act, ts, lastGesture) ==
  (ts - lastGesture.time) >= act.time_between_actions
FxRepeatDueLate(act, ts, lastGesture) ==
  act.auto_repeat /\ (ts - lastGesture.time) > act.time_between_actions
FxRepeatDue(act, ts, lastGesture) ==
  act.auto_repeat /\ (ts - lastGesture.time) >= act.time_between_actions

\* The timeout test of Process.
FxTimedOutLate(ts, lastGesture, fixed_time_out_s) ==
  (ts - lastGesture.time) > fixed_time_out_s
FxTimedOut(ts, lastGesture, fixed_time_out_s) ==
  (ts - lastGesture.time) >= fixed_time_out_s

\* The abort test at the top of Process.
FxLabelChangedNever(lastGesture, label_id) == FALSE
FxLabelChanged(lastGesture, label_id) ==
  lastGesture.notEmpty /\ lastGesture.start_action # label_id

\* Process with all three inputs present.  The result is the engine state
\* after the call, the packets it added and whether it returned an error.
FxProcessResult(options, cur, last, msgs, ts, label_id, angles) ==
  LET st1 == IF FxLabelChanged(last, label_id) THEN FxClear(cur, last)
             ELSE [currentAction |-> cur, lastGesture |-> last]
      scanned == FxScan(options.fixed_actions_map, 1, label_id,
                        [currentAction |-> st1.currentAction, failed |-> FALSE])
      idle == ~FxIsInitialized(st1.currentAction)
      st2 == IF idle
               THEN IF ~FxIsInitialized(scanned.currentAction)
                      THEN FxClear(scanned.currentAction, st1.lastGesture)
                    ELSE [currentAction |-> scanned.currentAction,
                          lastGesture |-> st1.lastGesture]
               ELSE st1
      keep == [currentAction |-> st2.currentAction,
               lastGesture |-> st2.lastGesture,
               mqttMessages |-> msgs, outMqtt |-> << >>]
      st3 == IF ~FxIsInitialized(st2.currentAction) THEN keep
             ELSE IF \/ ~st2.lastGesture.notEmpty
                     \/ FxRepeatDue(st2.currentAction, ts, st2.lastGesture)
                    THEN executeAction(st2.currentAction, st2.lastGesture,
                                       msgs, ts, angles)
                    ELSE keep
      st4 == IF /\ FxIsInitialized(st2.currentAction)
                /\ FxTimedOut(ts, st3.lastGesture, options.fixed_time_out_s)
               THEN FxClear(st3.currentAction, st3.lastGesture)
               ELSE [currentAction |-> st3.currentAction,
                     lastGesture |-> st3.lastGesture]
  IN  IF idle /\ scanned.failed
        THEN [currentAction |-> scanned.currentAction,
              lastGesture |-> st1.lastGesture,
              mqttMessages |-> msgs,
              outMqtt |-> << >>, outFlag |-> << >>, status |-> "error"]
        ELSE [currentAction |-> st4.currentAction,
              lastGesture |-> st4.lastGesture,
              mqttMessages |-> st3.mqttMessages,
              outMqtt |-> st3.outMqtt,
              outFlag |-> IF ~FxIsInitialized(st4.currentAction)
                            THEN << [at |-> NextAllowedInStream(ts),
                                     value |-> TRUE] >>
                            ELSE << >>,
              status |-> "ok"]

\* The frame recorded before any Process call.
FxNoFrame ==
  [ts |-> NoFrameYet, label_id |-> EmptyDetection,
   angles |-> [l \in LandmarkIds |-> [angle1 |-> 0, angle2 |-> 0]],
   complete |-> TRUE]

\* History variable, not engine state: the current hold, i.e. the label
\* repeated on every frame since `start`, and the timestamps of the frames
\* of the run that emitted a command.
FxNoHold == [label_id |-> EmptyDetection, start |-> NoFrameYet, fires |-> << >>]

FxHoldAfter(hold, ts, label_id, outMqtt) ==
  LET run == IF hold.label_id = label_id THEN hold
             ELSE [label_id |-> label_id, start |-> ts, fires |-> << >>]
  IN  IF outMqtt = << >> THEN run
      ELSE [run EXCEPT !.fires = Append(@, ts)]

FxInit(configs) ==
  /\ fx_options \in configs
  /\ fx_currentAction = FxClearedAction
  /\ fx_lastGesture = FxEmptyLastGesture
  /\ fx_mqttMessages = << >>
  /\ fx_status = "ok"
  /\ fx_frame = FxNoFrame
  /\ fx_pre = FxIdleState
  /\ fx_outMqtt = << >>
  /\ fx_outFlag = << >>
  /\ fx_hold = FxNoHold

\* One call of Process on the frame (ts, label_id, angles), all inputs
\* present.
FixedFrame(ts, label_id, angles) ==
  \E r \in { FxProcessResult(fx_options, fx_currentAction,
                              fx_lastGesture, fx_mqttMessages,
                              ts, label_id, angles) } :
      /\ fx_frame' = [ts |-> ts, label_id |-> label_id,
                      angles |-> angles, complete |-> TRUE]
      /\ fx_pre' = [currentAction |-> fx_currentAction,
                    lastGesture |-> fx_lastGesture]
      /\ fx_currentAction' = r.currentAction
      /\ fx_lastGesture' = r.lastGesture
      /\ fx_mqttMessages' = r.mqttMessages
      /\ fx_outMqtt' = r.outMqtt
      /\ fx_outFlag' = r.outFlag
      /\ fx_status' = r.status
      /\ fx_hold' = FxHoldAfter(fx_hold, ts, label_id, r.outMqtt)
      /\ UNCHANGED fx_options

\* fixedDynamicGesturesCalculator::Process, all inputs present.
FixedProcess ==
  /\ fx_status = "ok"
  /\ \E ts \in NextTimestamps(fx_frame.ts), label_id \in FxLabels,
        angles \in AnglesInputs :
       FixedFrame(ts, label_id, angles)

\* A Process that answers an incomplete frame by dropping what it holds.
FixedProcessMissingInputClears ==
  /\ fx_status = "ok"
  /\ \E ts \in NextTimestamps(fx_frame.ts) :
       /\ fx_frame' = [FxNoFrame EXCEPT !.ts = ts, !.complete = FALSE]
       /\ fx_pre' = [currentAction |-> fx_currentAction,
                     lastGesture |-> fx_lastGesture]
       /\ fx_outMqtt' = << >>
       /\ fx_outFlag' = << >>
       /\ fx_status' = "error"
       /\ fx_hold' = FxNoHold
       /\ fx_currentAction' = FxClearedAction
       /\ fx_lastGesture' = FxEmptyLastGesture
       /\ UNCHANGED << fx_options, fx_mqttMessages >>

\* fixedDynamicGesturesCalculator::Process with DETECTIONS, NORM_LANDMARKS or
\* ANGLES empty: a RET_CHECK at the top returns an error, which ends the run.
FixedFrameMissingInput(ts) ==
  /\ fx_frame' = [FxNoFrame EXCEPT !.ts = ts, !.complete = FALSE]
  /\ fx_pre' = [currentAction |-> fx_currentAction,
                lastGesture |-> fx_lastGesture]
  /\ fx_outMqtt' = << >>
  /\ fx_outFlag' = << >>
  /\ fx_status' = "error"
  /\ fx_hold' = FxNoHold
  /\ UNCHANGED << fx_options, fx_currentAction, fx_lastGesture,
                  fx_mqttMessages >>

FixedProcessMissingInput ==
  /\ fx_status = "ok"
  /\ \E ts \in NextTimestamps(fx_frame.ts) : FixedFrameMissingInput(ts)

\* --------------------------------------------------------- moving engine
VARIABLES
  mv_options,          \* options_
  mv_currentAction,    \* currentAction (a movingActionMap message)
  mv_startingGesture,  \* startingGesture
  mv_mqttMessages,     \* mqttMessages (member buffer)
  mv_status,           \* "ok", or "error" once a Process call returned an error
  mv_frame,            \* the last frame handed to Process
  mv_pre,              \* engine state at the top of that Process call
  mv_outMqtt,          \* packets added to MQTT_MESSAGE by that call
  mv_outFlag,          \* packets added to FLAG by that call
  mv_armedAt           \* history: timestamp of the frame that armed the engine

mv_vars == << mv_options, mv_currentAction, mv_startingGesture,
              mv_mqttMessages, mv_status, mv_frame, mv_pre, mv_outMqtt,
              mv_outFlag, mv_armedAt >>

\* Readings a frame may carry (landmark x positions and angles, in the unit
\* of the configured thresholds).
MvVals == { 0, 1, 7 }

\* A movingActionMap message after Clear(): every field at its default.
MvClearedAction ==
  [has_start_action |-> FALSE, start_action |-> 0,
   action_type |-> "TRASLATION", landmark_id |-> 0, angle_number |-> 0,
   action_threshold |-> 0, time_between_actions |-> 0,
   auto_repeat |-> FALSE, has_max_repeat |-> FALSE, max_repeat |-> 0,
   topic |-> "", positive_payload |-> "", negative_payload |-> ""]

\* A configured action; maxRep < 0 stands for "max_repeat not given".
MvAction(start, type, lm, num, thr, tba, rep, maxRep, topic, pos, neg) ==
  [has_start_action |-> TRUE, start_action |-> start,
   action_type |-> type, landmark_id |-> lm, angle_number |-> num,
   action_threshold |-> thr, time_between_actions |-> tba,
   auto_repeat |-> rep,
   has_max_repeat |-> (maxRep >= 0),
   max_repeat |-> IF maxRep >= 0 THEN maxRep ELSE 0,
   topic |-> topic, positive_payload |-> pos, negative_payload |-> neg]

\* The shape of the example configuration of the source (moving_time_out_s
\* 1.5, time_between_actions 0.5), with a max_repeat the readings exceed.
MvOptionsExample ==
  [moving_time_out_s |-> 3,
   moving_actions_map |->
     << MvAction(6, "ROTATION", 0, 1, 2, 1, TRUE, 2,
                 "tv", "KEY_VOLUMEUP", "KEY_VOLUMEDOWN"),
        MvAction(4, "TRASLATION", 0, 0, 2, 1, FALSE, -1,
                 "tv", "KEY_CHANNELUP", "KEY_CHANNELDOWN") >>]

\* A sample interval equal to the timeout, an uncapped auto-repeat, and two
\* entries that share a start id.
MvOptionsShared ==
  [moving_time_out_s |-> 2,
   moving_actions_map |->
     << MvAction(6, "TRASLATION", 1, 2, 2, 2, TRUE, -1,
                 "amp", "KEY_UP", "KEY_DOWN"),
        MvAction(4, "ROTATION", 1, 2, 2, 1, TRUE, 3,
                 "tv", "KEY_RIGHT", "KEY_LEFT"),
        MvAction(4, "TRASLATION", 0, 1, 4, 1, FALSE, 2,
                 "amp", "KEY_NEXT", "KEY_PREV") >>]

MvOptionsSet == { MvOptionsExample, MvOptionsShared }

\* Labels the detection stream may carry (9 is configured nowhere).
MvLabels == { 4, 6, 9 }

\* The NORM_LANDMARKS and ANGLES inputs of a frame.  A frame carries two
\* readings u and v: landmark 0 sits at x = u with angles (v, u), landmark 1
\* at x = v with angles (u, v), so every selector can read every value.
MvSensorInputs ==
  { [landmarks |-> [l \in LandmarkIds |-> [x |-> IF l = 0 THEN u ELSE v]],
     angles |-> [l \in LandmarkIds |->
                   IF l = 0 THEN [angle1 |-> v, angle2 |-> u]
                            ELSE [angle1 |-> u, angle2 |-> v]]] :
      u \in MvVals, v \in MvVals }

\* movingActionMap::IsInitialized(): the required field start_action is set
\* (declared in moving_dynamic_gestures_calculator.proto).
MvIsInitialized(act) == act.has_start_action

\* (struct StartingGesture){0}
MvEmptyStartingGesture ==
  [start_action |-> 0, time |-> 0, angle |-> 0, lmInfo |-> [x |-> 0]]

\* The engine as constructed: nothing armed, no baseline.
MvIdleState ==
  [currentAction |-> MvClearedAction,
   startingGesture |-> MvEmptyStartingGesture]

\* A clear that drops the baseline and keeps the action.
MvClearBaselineOnly(cur, sg) ==
  [currentAction |-> cur, startingGesture |-> MvEmptyStartingGesture]

\* clear(currentAction, startingGesture)
MvClear(cur, sg) ==
  [currentAction |-> MvClearedAction,
   startingGesture |-> MvEmptyStartingGesture]

\* setStartingGesture(startingGesture, currentAction, time, landmarks, angles)
setStartingGesture(currentAction, startingGestureTime, landmarks, angles) ==
  [start_action |-> currentAction.start_action,
   time |-> startingGestureTime,
   angle |-> getAngle(currentAction.angle_number, currentAction.landmark_id,
                      angles),
   lmInfo |-> landmarks[currentAction.landmark_id]]

\* The test at the top of Process that guards the first clear().
MvAbort(sg, cur, label_id) == sg.start_action # cur.start_action

\* The arming loop: every entry whose start_action equals the label is copied
\* in turn into currentAction and takes the baseline snapshot.
RECURSIVE MvScan(_, _, _, _, _, _, _)
MvScan(actions, i, label_id, ts, landmarks, angles, st) ==
  IF i > Len(actions) THEN st
  ELSE MvScan(actions, i + 1, label_id, ts, landmarks, angles,
              IF actions[i].start_action = label_id
                THEN [currentAction |-> actions[i],
                      startingGesture |->
                        setStartingGesture(actions[i], ts, landmarks, angles)]
                ELSE st)

\* The timeout test of the armed branch.
MvTimedOutLate(ts, sg, moving_time_out_s) == (ts - sg.time) > moving_time_out_s
MvTimedOut(ts, sg, moving_time_out_s) == (ts - sg.time) >= moving_time_out_s

\* The test that starts an evaluation.
MvEvaluationDueAlways(cur, ts, sg) == MvIsInitialized(cur)
MvEvaluationDue(cur, ts, sg) ==
  MvIsInitialized(cur) /\ (ts - sg.time) >= cur.time_between_actions

\* (int)(a / b) for b > 0: the quotient truncated toward zero.
FloorDiv(a, b) == a \div b
TruncDiv(a, b) == IF a >= 0 THEN a \div b ELSE -((-a) \div b)

Abs(n) == IF n < 0 THEN -n ELSE n

\* What a reversed subtraction (current - baseline) would compute.
MvMovementDiffReversed(cur, sg, landmarks, angles) ==
  IF cur.action_type = "TRASLATION"
    THEN landmarks[cur.landmark_id].x - sg.lmInfo.x
  ELSE IF cur.action_type = "ROTATION"
    THEN getAngle(cur.angle_number, cur.landmark_id, angles) - sg.angle
  ELSE 0

\* movementDiff of the switch on action_type.
MvMovementDiff(cur, sg, landmarks, angles) ==
  IF cur.action_type = "TRASLATION"
    THEN sg.lmInfo.x - landmarks[cur.landmark_id].x
  ELSE IF cur.action_type = "ROTATION"
    THEN sg.angle - getAngle(cur.angle_number, cur.landmark_id, angles)
  ELSE 0

\* numActions after the division and the two clamps.
MvNumActions(cur, movementDiff) ==
  LET raw == IF cur.action_type \in { "TRASLATION", "ROTATION" }
               THEN TruncDiv(movementDiff, cur.action_threshold)
               ELSE 0
      signed == IF ~cur.auto_repeat /\ raw # 0 THEN raw \div Abs(raw)
                ELSE raw
  IN  IF cur.has_max_repeat /\ signed # 0 /\ Abs(signed) > cur.max_repeat
        THEN IF signed > 0 THEN cur.max_repeat ELSE cur.max_repeat * (-1)
        ELSE signed

\* The messages the emission loop appends to mqttMessages.
RECURSIVE MvAppendMessages(_, _, _, _)
MvAppendMessages(msgs, cur, numActions, i) ==
  IF i > Abs(numActions) THEN msgs
  ELSE MvAppendMessages(
         Append(msgs,
                Mqtt_Message(cur.topic,
                             IF numActions > 0 THEN cur.positive_payload
                             ELSE cur.negative_payload)),
         cur, numActions, i + 1)

\* An evaluation that re-takes the baseline when nothing moved a whole
\* threshold.
MvEvaluateRebasing(cur, sg, msgs, ts, landmarks, angles) ==
  LET sg1 == [sg EXCEPT !.time = ts]
      numActions ==
        MvNumActions(cur, MvMovementDiff(cur, sg, landmarks, angles))
      batch == MvAppendMessages(msgs, cur, numActions, 1)
  IN  IF Abs(numActions) # 0
        THEN [st |-> MvClear(cur, sg1), mqttMessages |-> << >>,
              outMqtt |-> << [at |-> NextAllowedInStream(ts),
                              value |-> batch] >>]
        ELSE [st |-> [currentAction |-> cur,
                      startingGesture |->
                        setStartingGesture(cur, ts, landmarks, angles)],
              mqttMessages |-> batch, outMqtt |-> << >>]

\* An evaluation that leaves the emitted commands in the member buffer.
MvEvaluateKeepsBuffer(cur, sg, msgs, ts, landmarks, angles) ==
  LET sg1 == [sg EXCEPT !.time = ts]
      numActions ==
        MvNumActions(cur, MvMovementDiff(cur, sg, landmarks, angles))
      batch == MvAppendMessages(msgs, cur, numActions, 1)
  IN  IF Abs(numActions) # 0
        THEN [st |-> MvClear(cur, sg1), mqttMessages |-> batch,
              outMqtt |-> << [at |-> NextAllowedInStream(ts),
                              value |-> batch] >>]
        ELSE [st |-> [currentAction |-> cur, startingGesture |-> sg1],
              mqttMessages |-> batch, outMqtt |-> << >>]

\* The "execute action" block of Process.
MvEvaluate(cur, sg, msgs, ts, landmarks, angles) ==
  LET sg1 == [sg EXCEPT !.time = ts]
      numActions ==
        MvNumActions(cur, MvMovementDiff(cur, sg, landmarks, angles))
      batch == MvAppendMessages(msgs, cur, numActions, 1)
  IN  IF Abs(numActions) # 0
        THEN [st |-> MvClear(cur, sg1), mqttMessages |-> << >>,
              outMqtt |-> << [at |-> NextAllowedInStream(ts),
                              value |-> batch] >>]
        ELSE [st |-> [currentAction |-> cur, startingGesture |-> sg1],
              mqttMessages |-> batch, outMqtt |-> << >>]

\* Process with all three inputs present.
MvProcessResult(options, cur, sg, msgs, ts, label_id, landmarks, angles) ==
  LET st1 == IF MvAbort(sg, cur, label_id) THEN MvClear(cur, sg)
             ELSE [currentAction |-> cur, startingGesture |-> sg]
      idleBranch ==
        LET scanned == MvScan(options.moving_actions_map, 1, label_id, ts,
                              landmarks, angles, st1)
        IN  [st |-> IF ~MvIsInitialized(scanned.currentAction)
                      THEN MvClear(scanned.currentAction,
                                   scanned.startingGesture)
                      ELSE scanned,
             mqttMessages |-> msgs, outMqtt |-> << >>]
      armedBranch ==
        LET st2 == IF MvTimedOut(ts, st1.startingGesture,
                                 options.moving_time_out_s)
                     THEN MvClear(st1.currentAction, st1.startingGesture)
                     ELSE st1
        IN  IF MvEvaluationDue(st2.currentAction, ts, st2.startingGesture)
              THEN MvEvaluate(st2.currentAction, st2.startingGesture, msgs,
                              ts, landmarks, angles)
              ELSE [st |-> st2, mqttMessages |-> msgs, outMqtt |-> << >>]
      r == IF ~MvIsInitialized(st1.currentAction) THEN idleBranch
           ELSE armedBranch
  IN  [currentAction |-> r.st.currentAction,
       startingGesture |-> r.st.startingGesture,
       mqttMessages |-> r.mqttMessages,
       outMqtt |-> r.outMqtt,
       outFlag |-> IF ~MvIsInitialized(r.st.currentAction)
                     THEN << [at |-> NextAllowedInStream(ts), value |-> TRUE] >>
                     ELSE << >>]

\* The frame recorded before any Process call.
MvNoFrame ==
  [ts |-> NoFrameYet, label_id |-> EmptyDetection,
   landmarks |-> [l \in LandmarkIds |-> [x |-> 0]],
   angles |-> [l \in LandmarkIds |-> [angle1 |-> 0, angle2 |-> 0]],
   complete |-> TRUE]

\* History of the arming: the timestamp of the frame that armed the action
\* the engine holds, NoFrameYet while nothing is armed.
MvArmedAtAfter(armedAt, wasArmed, isArmed, ts) ==
  IF ~isArmed THEN NoFrameYet
  ELSE IF ~wasArmed THEN ts
  ELSE armedAt

MvInit(configs) ==
  /\ mv_options \in configs
  /\ mv_currentAction = MvClearedAction
  /\ mv_startingGesture = MvEmptyStartingGesture
  /\ mv_mqttMessages = << >>
  /\ mv_status = "ok"
  /\ mv_frame = MvNoFrame
  /\ mv_pre = MvIdleState
  /\ mv_outMqtt = << >>
  /\ mv_outFlag = << >>
  /\ mv_armedAt = NoFrameYet

\* One call of Process on the frame (ts, label_id, in), all inputs present.
MovingFrame(ts, label_id, in) ==
  \E r \in { MvProcessResult(mv_options, mv_currentAction,
                              mv_startingGesture, mv_mqttMessages,
                              ts, label_id, in.landmarks, in.angles) } :
      /\ mv_frame' = [ts |-> ts, label_id |-> label_id,
                      landmarks |-> in.landmarks, angles |-> in.angles,
                      complete |-> TRUE]
      /\ mv_pre' = [currentAction |-> mv_currentAction,
                    startingGesture |-> mv_startingGesture]
      /\ mv_currentAction' = r.currentAction
      /\ mv_startingGesture' = r.startingGesture
      /\ mv_mqttMessages' = r.mqttMessages
      /\ mv_outMqtt' = r.outMqtt
      /\ mv_outFlag' = r.outFlag
      /\ mv_armedAt' =
           MvArmedAtAfter(mv_armedAt, MvIsInitialized(mv_currentAction),
                          MvIsInitialized(r.currentAction), ts)
      /\ UNCHANGED << mv_options, mv_status >>

\* movingDynamicGesturesCalculator::Process, all inputs present.
MovingProcess ==
  /\ mv_status = "ok"
  /\ \E ts \in NextTimestamps(mv_frame.ts), label_id \in MvLabels,
        in \in MvSensorInputs :
       MovingFrame(ts, label_id, in)

\* movingDynamicGesturesCalculator::Process with DETECTIONS, NORM_LANDMARKS or
\* ANGLES empty: a RET_CHECK at the top returns an error, which ends the run.
MovingFrameMissingInput(ts) ==
  /\ mv_frame' = [MvNoFrame EXCEPT !.ts = ts, !.complete = FALSE]
  /\ mv_pre' = [currentAction |-> mv_currentAction,
                startingGesture |-> mv_startingGesture]
  /\ mv_outMqtt' = << >>
  /\ mv_outFlag' = << >>
  /\ mv_status' = "error"
  /\ UNCHANGED << mv_options, mv_currentAction, mv_startingGesture,
                  mv_mqttMessages, mv_armedAt >>

MovingProcessMissingInput ==
  /\ mv_status = "ok"
  /\ \E ts \in NextTimestamps(mv_frame.ts) : MovingFrameMissingInput(ts)

\* ------------------------------------------------------ gesture classifier
VARIABLES
  cl_gesture_map,   \* gesture_map_: line number of the classes file -> text
  cl_frame,         \* the last frame handed to Process
  cl_outLatch,      \* packets added to the four LATCH_* outputs by that call
  cl_outTBD         \* packets added to TBD by that call

cl_vars == << cl_gesture_map, cl_frame, cl_outLatch, cl_outTBD >>

\* Texts are sequences of character codes (ASCII).
\* "transition", "moving", "writing", "fixed"
transitionTag == << 116, 114, 97, 110, 115, 105, 116, 105, 111, 110 >>
movingTag == << 109, 111, 118, 105, 110, 103 >>
writingTag == << 119, 114, 105, 116, 105, 110, 103 >>
fixedTag == << 102, 105, 120, 101, 100 >>

\* Other lines a classes file may hold: "none", "Fixed", "fixed " (trailing
\* blank), "ccatuse", "hdiapff" and the empty line.
TextNone == << 110, 111, 110, 101 >>
TextCapital == << 70, 105, 120, 101, 100 >>
TextTrailing == << 102, 105, 120, 101, 100, 32 >>
TextCcatuse == << 99, 99, 97, 116, 117, 115, 101 >>
TextHdiapff == << 104, 100, 105, 97, 112, 102, 102 >>
TextEmptyLine == << >>

\* unsigned int arithmetic, a value being kept as two 16-bit halves.
Word(hi, lo) == [hi |-> hi, lo |-> lo]

RECURSIVE BitXor(_, _)
BitXor(a, b) ==
  IF a = 0 THEN b
  ELSE IF b = 0 THEN a
  ELSE (((a % 2) + (b % 2)) % 2) + 2 * BitXor(a \div 2, b \div 2)

\* w * 33 modulo 2^32
Times33(w) ==
  LET lo == w.lo * 33
  IN  Word((w.hi * 33 + lo \div 65536) % 65536, lo % 65536)

\* w ^ c for a character code c < 128
XorChar(w, c) == Word(w.hi, BitXor(w.lo, c))

\* str2int(str, h); h counts from 1 and the end of the text is the
\* terminating zero.
RECURSIVE str2int(_, _)
str2int(str, h) ==
  IF h > Len(str) THEN Word(0, 5381)
  ELSE XorChar(Times33(str2int(str, h + 1)), str[h])

\* gesture_map_ as Open fills it: line i of the file under key i, from 0.
GestureMap(lines) == [i \in 0..(Len(lines) - 1) |-> lines[i + 1]]

ClMapExample ==
  GestureMap(<< transitionTag, movingTag, writingTag, fixedTag, TextNone >>)

ClMapMixed ==
  GestureMap(<< fixedTag, TextCapital, TextEmptyLine, TextTrailing,
                movingTag, transitionTag >>)

ClMapOther ==
  GestureMap(<< writingTag, TextCcatuse, TextHdiapff, fixedTag >>)

ClMapSet == { ClMapExample, ClMapMixed, ClMapOther }

\* Label ids the detection stream may carry (6 and 7 are in no table).
ClLabels == 0..7

\* A packet on an output stream.
PacketAt(ts, plus, value) ==
  [at |-> [base |-> ts, plus |-> plus], value |-> value]

ClNoLatch ==
  [transition |-> << >>, moving |-> << >>, writing |-> << >>,
   fixed |-> << >>]

\* setLatches(transition, moving, writing, fixed, cc)
setLatches(transition, moving, writing, fixed, ts) ==
  [transition |-> << PacketAt(ts, 0, transition) >>,
   moving |-> << PacketAt(ts, 0, moving) >>,
   writing |-> << PacketAt(ts, 0, writing) >>,
   fixed |-> << PacketAt(ts, 0, fixed) >>]

\* outLabel: the text of the label id, "" when the id is not in the table.
ClOutLabel(gesture_map, label_id) ==
  IF label_id \in DOMAIN gesture_map THEN gesture_map[label_id]
  ELSE << >>

\* The case labels of the switch, computed when the program is compiled.
CaseTransition == str2int(transitionTag, 1)
CaseMoving == str2int(movingTag, 1)
CaseWriting == str2int(writingTag, 1)
CaseFixed == str2int(fixedTag, 1)

\* The switch of Process on code = str2int(outLabel).
ClSwitch(code, ts) ==
  IF code = CaseTransition
    THEN [latch |-> setLatches(TRUE, FALSE, FALSE, FALSE, ts), tbd |-> << >>]
  ELSE IF code = CaseMoving
    THEN [latch |-> setLatches(FALSE, TRUE, FALSE, FALSE, ts), tbd |-> << >>]
  ELSE IF code = CaseWriting
    THEN [latch |-> setLatches(FALSE, FALSE, TRUE, FALSE, ts), tbd |-> << >>]
  ELSE IF code = CaseFixed
    THEN [latch |-> setLatches(FALSE, FALSE, FALSE, TRUE, ts), tbd |-> << >>]
  ELSE [latch |-> setLatches(FALSE, FALSE, FALSE, FALSE, ts),
        tbd |-> << [at |-> NextAllowedInStream(ts), value |-> TRUE] >>]

\* The body of Process for a non-empty DETECTIONS input.
ClProcessResult(gesture_map, ts, label_id) ==
  ClSwitch(str2int(ClOutLabel(gesture_map, label_id), 1), ts)

ClInit(maps) ==
  /\ cl_gesture_map \in maps
  /\ cl_frame = [ts |-> NoFrameYet, label_id |-> EmptyDetection]
  /\ cl_outLatch = ClNoLatch
  /\ cl_outTBD = << >>

\* One call of Process on the frame (ts, label_id), DETECTIONS not empty.
ClassifierFrame(ts, label_id) ==
  \E r \in { ClProcessResult(cl_gesture_map, ts, label_id) } :
      /\ cl_frame' = [ts |-> ts, label_id |-> label_id]
      /\ cl_outLatch' = r.latch
      /\ cl_outTBD' = r.tbd
      /\ UNCHANGED cl_gesture_map

\* gestureClassifierCalculator::Process, DETECTIONS not empty.
ClassifierProcess ==
  \E ts \in NextTimestamps(cl_frame.ts), label_id \in ClLabels :
    ClassifierFrame(ts, label_id)

\* gestureClassifierCalculator::Process, DETECTIONS empty: the body is
\* skipped.
ClassifierFrameEmpty(ts) ==
  /\ cl_frame' = [ts |-> ts, label_id |-> EmptyDetection]
  /\ cl_outLatch' = ClNoLatch
  /\ cl_outTBD' = << >>
  /\ UNCHANGED cl_gesture_map

ClassifierProcessEmpty ==
  \E ts \in NextTimestamps(cl_frame.ts) : ClassifierFrameEmpty(ts)

\* --------------------------------------------------------- writing engine
VARIABLES
  wr_state,     \* the members Process could write (point_list, roi, ...)
  wr_frame,     \* the last frame handed to Process
  wr_pre,       \* wr_state at the top of that Process call
  wr_outMqtt,   \* packets added to MQTT_MESSAGE by that call
  wr_outFlag    \* packets added to FLAG by that call

wr_vars == << wr_state, wr_frame, wr_pre, wr_outMqtt, wr_outFlag >>

\* struct ROI, every field zero.
WrEmptyROI ==
  [left |-> 0, rigth |-> 0, top |-> 0, bottom |-> 0,
   x_length |-> 0, y_length |-> 0, ratio |-> 0]

\* The private members of the calculator as constructed.
WrConstructed ==
  [point_list |-> << >>, init_drawing_time |-> 0, digit_start_time |-> 0,
   roi |-> WrEmptyROI, current_angle |-> 0, number_of_accute_angles |-> 0,
   accute_angle_cleared |-> FALSE, old_x |-> 0, old_y |-> 0,
   minimun_ratio_trigered |-> FALSE]

\* Labels the DETECTIONS input may carry.
WrLabels == { 0, 5, 7 }

\* The NORM_LANDMARKS input: empty, or the tracked landmark at (x, y).
WrLandmarkInputs ==
  { << >> } \cup { << [x |-> u, y |-> v] >> : u \in { 0, 1 }, v \in { 0, 1 } }

\* The input sets the framework calls Process with: at least one stream
\* carries a packet.
WrInputs ==
  { in \in [label_id : WrLabels \cup { EmptyDetection },
            landmarks : WrLandmarkInputs] :
      in.label_id # EmptyDetection \/ in.landmarks # << >> }

WrNoFrame ==
  [ts |-> NoFrameYet, label_id |-> EmptyDetection, landmarks |-> << >>]

\* A Process whose trajectory bookkeeping is live: the tracked point is
\* appended and remembered.
WrProcessResultTracking(state, ts, label_id, landmarks) ==
  [state |-> IF landmarks = << >> THEN state
             ELSE [state EXCEPT !.point_list = Append(@, landmarks[1]),
                                !.old_x = landmarks[1].x,
                                !.old_y = landmarks[1].y],
   outMqtt |-> << >>,
   outFlag |-> << [at |-> NextAllowedInStream(ts), value |-> TRUE] >>]

\* The body of Process: the trajectory code is commented out; what runs is
\* the FLAG packet.
WrProcessResult(state, ts, label_id, landmarks) ==
  [state |-> state,
   outMqtt |-> << >>,
   outFlag |-> << [at |-> NextAllowedInStream(ts), value |-> TRUE] >>]

WrInit ==
  /\ wr_state = WrConstructed
  /\ wr_frame = WrNoFrame
  /\ wr_pre = WrConstructed
  /\ wr_outMqtt = << >>
  /\ wr_outFlag = << >>

\* One call of Process on the frame (ts, label_id, landmarks).
WritingFrame(ts, label_id, landmarks) ==
  \E r \in { WrProcessResult(wr_state, ts, label_id, landmarks) } :
      /\ wr_frame' = [ts |-> ts, label_id |-> label_id,
                      landmarks |-> landmarks]
      /\ wr_pre' = wr_state
      /\ wr_state' = r.state
      /\ wr_outMqtt' = r.outMqtt
      /\ wr_outFlag' = r.outFlag

\* writingDynamicGesturesCalculator::Process.
WritingProcess ==
  \E ts \in NextTimestamps(wr_frame.ts), in \in WrInputs :
    WritingFrame(ts, in.label_id, in.landmarks)

\* -------------------------------------------------------- latch calculator
VARIABLES
  lt_latched,           \* latched, per gate, and whether it was ever written
  lt_last_latch_state,  \* last_latch_state_, per gate
  lt_outState,          \* packets added to STATE_CHANGE by the last call
  lt_outData,           \* packets added to the data outputs by the last call
  lt_reset,             \* packets waiting on the RESET input of each gate
  lt_frame,             \* the last input set handed to the gate driven alone
  lt_pre,               \* that gate's members at the top of that call
  lt_expect             \* what the packets received so far ask of that gate

\* What the runs that drive one gate on its own record about it.
lt_obs == << lt_frame, lt_pre, lt_expect >>

lt_vars == << lt_latched, lt_last_latch_state, lt_outState, lt_outData,
              lt_reset, lt_obs >>

\* One LatchCalculator node in front of each engine.
Gates == { "transition", "moving", "writing", "fixed" }

\* `bool latched;` has no initializer, the constructor has an empty body and
\* Open does not assign it: until Process assigns it the member holds
\* whatever the build left there.
LtUnassigned == [assigned |-> FALSE, value |-> FALSE]

LtAssigned(value) == [assigned |-> TRUE, value |-> value]

\* The value a read of latched yields: the assigned value, or, before any
\* assignment, the value the build left in the member.
LtRead(latched, build) ==
  IF latched.assigned THEN latched.value ELSE build

\* The first two ifs of Process: a LATCH packet is copied, then a RESET
\* packet is copied negated.
LtAfterLatchOpensOnly(latched, latch) ==
  IF latch # << >> /\ latch[1].value THEN LtAssigned(TRUE) ELSE latched
LtAfterLatch(latched, latch) ==
  IF latch # << >> THEN LtAssigned(latch[1].value) ELSE latched

LtAfterReset(latched, reset) ==
  IF reset # << >> THEN LtAssigned(~ reset[1].value) ELSE latched

\* No packet on any of the data streams.
LtNoData(data) == [i \in DOMAIN data |-> << >>]

\* A Process that also reports the state the first input set leaves.
LtProcessResultFromStart(latched, last_latch_state, latch, reset, data, at, build) ==
  LET now == LtRead(LtAfterReset(LtAfterLatch(latched, latch), reset),
                    build)
      new_latch_state == IF now THEN "LATCH_ON" ELSE "LATCH_OFF"
  IN  [latched |-> LtAssigned(now),
       last_latch_state |-> new_latch_state,
       outState |->
         IF last_latch_state # new_latch_state
           THEN << [at |-> at, value |-> now] >>
           ELSE << >>,
       outData |-> IF now THEN data ELSE LtNoData(data)]

\* LatchCalculator::Process on the input set (latch, reset, data) whose
\* timestamp is at; data is the sequence of the data streams, each << >> or
\* one packet.
LtProcessResult(latched, last_latch_state, latch, reset, data, at, build) ==
  LET now == LtRead(LtAfterReset(LtAfterLatch(latched, latch), reset),
                    build)
      new_latch_state == IF now THEN "LATCH_ON" ELSE "LATCH_OFF"
  IN  [latched |-> LtAssigned(now),
       last_latch_state |-> new_latch_state,
       outState |->
         IF /\ last_latch_state # "LATCH_UNINITIALIZED"
            /\ last_latch_state # new_latch_state
           THEN << [at |-> at, value |-> now] >>
           ELSE << >>,
       outData |-> IF now THEN data ELSE LtNoData(data)]

\* The values the build may have left in the members not yet assigned.
LtBuilds(latched) ==
  { b \in [Gates -> BOOLEAN] : \A g \in Gates : latched[g].assigned => ~ b[g] }

\* The data streams of a frame: DETECTIONS and the sensor streams.
LtFrameData(ts, label_id) ==
  << IF label_id = EmptyDetection THEN << >>
     ELSE << PacketAt(ts, 0, label_id) >>,
     << PacketAt(ts, 0, "sensors") >> >>

LtNoFrame ==
  [ts |-> NoFrameYet, latch |-> << >>, reset |-> << >>,
   data |-> << << >>, << >> >>]

LtInit ==
  /\ lt_latched = [g \in Gates |-> LtUnassigned]
  /\ lt_last_latch_state = [g \in Gates |-> "LATCH_UNINITIALIZED"]
  /\ lt_outState = [g \in Gates |-> << >>]
  /\ lt_outData = [g \in Gates |-> << << >>, << >> >>]
  /\ lt_reset = [g \in Gates |-> << >>]
  /\ lt_frame = LtNoFrame
  /\ lt_pre = [latched |-> LtUnassigned,
               last_latch_state |-> "LATCH_UNINITIALIZED"]
  /\ lt_expect = "unknown"

\* The gate the runs of a single LatchCalculator drive.
LatchGate == "fixed"

\* Payloads of the data packets.
LtDataVals == { "a", "b" }

\* What a LATCH or RESET input may hold at ts: nothing, or one bool packet.
LtFlagInputs(ts) ==
  { << >> } \cup { << PacketAt(ts, 0, b) >> : b \in BOOLEAN }

\* What the two data inputs may hold at ts.
LtDataInputs(ts) ==
  [1..2 -> { << >> } \cup { << PacketAt(ts, 0, v) >> : v \in LtDataVals }]

\* The input sets the framework calls Process with at ts: at least one
\* stream carries a packet.
LtInputs(ts) ==
  { in \in [latch : LtFlagInputs(ts), reset : LtFlagInputs(ts),
            data : LtDataInputs(ts)] :
      \/ in.latch # << >> \/ in.reset # << >>
      \/ \E i \in DOMAIN in.data : in.data[i] # << >> }

\* History, not calculator state: what the packets of a call ask of the
\* gate.  RESET true asks for off; without a RESET packet LATCH true asks
\* for on and LATCH false for off; a call without either asks for what was
\* asked before; a RESET packet carrying false is left open ("unknown").
LtExpectAfter(expect, latch, reset) ==
  IF reset # << >>
    THEN IF reset[1].value THEN "off" ELSE "unknown"
  ELSE IF latch # << >>
    THEN IF latch[1].value THEN "on" ELSE "off"
  ELSE expect

\* LatchCalculator::Process of the gate g on the input set in at ts.
LatchFrame(g, ts, in) ==
  \E build \in { b[g] : b \in LtBuilds(lt_latched) } :
    \E r \in { LtProcessResult(lt_latched[g], lt_last_latch_state[g],
                               in.latch, in.reset, in.data,
                               [base |-> ts, plus |-> 0], build) } :
        /\ lt_frame' = [ts |-> ts, latch |-> in.latch, reset |-> in.reset,
                        data |-> in.data]
        /\ lt_pre' = [latched |-> lt_latched[g],
                      last_latch_state |-> lt_last_latch_state[g]]
        /\ lt_expect' = LtExpectAfter(lt_expect, in.latch, in.reset)
        /\ lt_latched' = [lt_latched EXCEPT ![g] = r.latched]
        /\ lt_last_latch_state' =
             [lt_last_latch_state EXCEPT ![g] = r.last_latch_state]
        /\ lt_outState' = [lt_outState EXCEPT ![g] = r.outState]
        /\ lt_outData' = [lt_outData EXCEPT ![g] = r.outData]
        /\ UNCHANGED lt_reset

\* LatchCalculator::Process.
LatchProcess ==
  \E ts \in NextTimestamps(lt_frame.ts) :
    \E in \in LtInputs(ts) : LatchFrame(LatchGate, ts, in)

\* ------------------------------------------- detection class stabilization
\* detection_class_stabilization_calculator.cc registers the class
\* AnglesToDetectionCalculator; it has no member besides options_.
VARIABLES
  st_frame,     \* the last input handed to Process
  st_out,       \* packets added to output 0 by that call
  st_history    \* history: the classes of the last QueueSize inputs

st_vars == << st_frame, st_out, st_history >>

\* The length of the FIFO the header comment speaks of.
QueueSize == 3

\* raw_tensor->dims->data[1]: the number of scores in a tensor.
NumClasses == 3

\* Confidence scores a tensor may hold.
StScores == { 1, 2 }

\* The tensors of the input stream: one score per class, indexed from 0.
StTensors == [0..(NumClasses - 1) -> StScores]

\* `float biggest; int label_;` have no initializer: what the build may have
\* left in them (a value below, among and above the scores; a class id and
\* an id no class has).
StBuildBiggest == { 0, 1, 2 }

StBuildLabel == { 0, 7 }

\* The loop of Process from index i on: a score replaces biggest only when
\* it is strictly greater.
RECURSIVE StScan(_, _, _, _)
StScan(raw_floats, i, biggest, label_) ==
  IF i >= NumClasses THEN [biggest |-> biggest, label_ |-> label_]
  ELSE IF raw_floats[i] > biggest
         THEN StScan(raw_floats, i + 1, raw_floats[i], i)
         ELSE StScan(raw_floats, i + 1, biggest, label_)

\* The bounding box every output detection carries.
StLocationData ==
  [format |-> "BOUNDING_BOX", xmin |-> 450, ymin |-> 450, width |-> 200,
   height |-> 20]

\* The body of Process: one packet, at the input timestamp, holding one
\* detection.
StProcessResult(raw_floats, ts, biggest, label_) ==
  LET r == StScan(raw_floats, 0, biggest, label_)
  IN  << [at |-> [base |-> ts, plus |-> 0],
          value |-> << [score |-> r.biggest, label_id |-> r.label_,
                        location_data |-> StLocationData] >>] >>

\* The class of a tensor: the first index that holds its highest score.
StClassOf(raw_floats) ==
  CHOOSE c \in DOMAIN raw_floats :
    /\ \A d \in DOMAIN raw_floats : raw_floats[d] <= raw_floats[c]
    /\ \A d \in DOMAIN raw_floats :
         raw_floats[d] = raw_floats[c] => c <= d

\* History, not calculator state: the classes of the last QueueSize inputs,
\* oldest first.
StHistoryAfter(history, class) ==
  IF Len(history) < QueueSize THEN Append(history, class)
  ELSE Append(Tail(history), class)

StNoFrame ==
  [ts |-> NoFrameYet, raw_floats |-> [c \in 0..(NumClasses - 1) |-> 0]]

StInit ==
  /\ st_frame = StNoFrame
  /\ st_out = << >>
  /\ st_history = << >>

\* AnglesToDetectionCalculator::Process on the tensor raw_floats at ts.
StabilizationFrame(ts, raw_floats) ==
  \E biggest \in StBuildBiggest, label_ \in StBuildLabel :
    /\ st_frame' = [ts |-> ts, raw_floats |-> raw_floats]
    /\ st_out' = StProcessResult(raw_floats, ts, biggest, label_)
    /\ st_history' = StHistoryAfter(st_history, StClassOf(raw_floats))

\* AnglesToDetectionCalculator::Process.
StabilizationProcess ==
  \E ts \in NextTimestamps(st_frame.ts), raw_floats \in StTensors :
    StabilizationFrame(ts, raw_floats)

\* ------------------------------------------------------- specifications
VARIABLE
  node   \* the calculator(s) the run drives; the others stay as constructed

vars == << tr_vars, fx_vars, mv_vars, cl_vars, wr_vars, lt_vars,
           st_vars, node >>

\* The calculators a run may drive on their own.
Calculators == { "transition", "fixed", "moving", "classifier" }

\* Each calculator owns its state; a specification drives one of them and
\* leaves the others as constructed.
InitTransition ==
  /\ node = "transition"
  /\ TrInit(TrOptionsSet)
  /\ FxInit({FxOptionsExample})
  /\ MvInit({MvOptionsExample})
  /\ ClInit({ClMapExample})
  /\ WrInit
  /\ LtInit
  /\ StInit

InitFixed ==
  /\ node = "fixed"
  /\ TrInit({TrOptionsExample})
  /\ FxInit(FxOptionsSet)
  /\ MvInit({MvOptionsExample})
  /\ ClInit({ClMapExample})
  /\ WrInit
  /\ LtInit
  /\ StInit

InitMoving ==
  /\ node = "moving"
  /\ TrInit({TrOptionsExample})
  /\ FxInit({FxOptionsExample})
  /\ MvInit(MvOptionsSet)
  /\ ClInit({ClMapExample})
  /\ WrInit
  /\ LtInit
  /\ StInit

InitClassifier ==
  /\ node = "classifier"
  /\ TrInit({TrOptionsExample})
  /\ FxInit({FxOptionsExample})
  /\ MvInit({MvOptionsExample})
  /\ ClInit(ClMapSet)
  /\ WrInit
  /\ LtInit
  /\ StInit

\* The classifier and the transition engine on one DETECTIONS stream: every
\* frame, empty or not, is handed to both.
InitDetections ==
  /\ node = "detections"
  /\ TrInit(TrOptionsSet)
  /\ FxInit({FxOptionsExample})
  /\ MvInit({MvOptionsExample})
  /\ ClInit(ClMapSet)
  /\ WrInit
  /\ LtInit
  /\ StInit

\* A run of any one calculator.
InitCalculators ==
  /\ node \in Calculators
  /\ TrInit(IF node = "transition" THEN TrOptionsSet
            ELSE {TrOptionsExample})
  /\ FxInit(IF node = "fixed" THEN FxOptionsSet ELSE {FxOptionsExample})
  /\ MvInit(IF node = "moving" THEN MvOptionsSet ELSE {MvOptionsExample})
  /\ ClInit(IF node = "classifier" THEN ClMapSet ELSE {ClMapExample})
  /\ WrInit
  /\ LtInit
  /\ StInit

TransitionNext ==
  \/ TransitionProcess
       /\ UNCHANGED << fx_vars, mv_vars, cl_vars, wr_vars, lt_vars,
                       st_vars, node >>
  \/ TransitionProcessEmpty
       /\ UNCHANGED << fx_vars, mv_vars, cl_vars, wr_vars, lt_vars,
                       st_vars, node >>

SpecTransition == InitTransition /\ [][TransitionNext]_vars

FixedNext ==
  \/ FixedProcess
       /\ UNCHANGED << tr_vars, mv_vars, cl_vars, wr_vars, lt_vars,
                       st_vars, node >>
  \/ FixedProcessMissingInput
       /\ UNCHANGED << tr_vars, mv_vars, cl_vars, wr_vars, lt_vars,
                       st_vars, node >>

SpecFixed == InitFixed /\ [][FixedNext]_vars

\* The fixed engine opened with a configuration Process will refuse.
InitFixedMismatch ==
  /\ node = "fixed"
  /\ TrInit({TrOptionsExample})
  /\ FxInit({FxOptionsMismatch})
  /\ MvInit({MvOptionsExample})
  /\ ClInit({ClMapExample})
  /\ WrInit
  /\ LtInit
  /\ StInit

SpecFixedMismatch == InitFixedMismatch /\ [][FixedNext]_vars

\* The fixed engine opened with the configuration that uses topic "empty".
InitFixedSentinel ==
  /\ node = "fixed"
  /\ TrInit({TrOptionsExample})
  /\ FxInit({FxOptionsSentinel})
  /\ MvInit({MvOptionsExample})
  /\ ClInit({ClMapExample})
  /\ WrInit
  /\ LtInit
  /\ StInit

SpecFixedSentinel == InitFixedSentinel /\ [][FixedNext]_vars

MovingNext ==
  \/ MovingProcess
       /\ UNCHANGED << tr_vars, fx_vars, cl_vars, wr_vars, lt_vars,
                       st_vars, node >>
  \/ MovingProcessMissingInput
       /\ UNCHANGED << tr_vars, fx_vars, cl_vars, wr_vars, lt_vars,
                       st_vars, node >>

SpecMoving == InitMoving /\ [][MovingNext]_vars

ClassifierNext ==
  \/ ClassifierProcess
       /\ UNCHANGED << tr_vars, fx_vars, mv_vars, wr_vars, lt_vars,
                       st_vars, node >>
  \/ ClassifierProcessEmpty
       /\ UNCHANGED << tr_vars, fx_vars, mv_vars, wr_vars, lt_vars,
                       st_vars, node >>

SpecClassifier == InitClassifier /\ [][ClassifierNext]_vars

DetectionsNext ==
  \/ /\ TransitionProcess
     /\ ClassifierProcess
     /\ cl_frame' = tr_frame'
     /\ UNCHANGED << fx_vars, mv_vars, wr_vars, lt_vars,
                     st_vars, node >>
  \/ /\ TransitionProcessEmpty
     /\ ClassifierProcessEmpty
     /\ cl_frame' = tr_frame'
     /\ UNCHANGED << fx_vars, mv_vars, wr_vars, lt_vars,
                     st_vars, node >>

SpecDetections == InitDetections /\ [][DetectionsNext]_vars

CalculatorsNext ==
  \/ node = "transition" /\ TransitionProcess
       /\ UNCHANGED << fx_vars, mv_vars, cl_vars, wr_vars, lt_vars,
                       st_vars, node >>
  \/ node = "transition" /\ TransitionProcessEmpty
       /\ UNCHANGED << fx_vars, mv_vars, cl_vars, wr_vars, lt_vars,
                       st_vars, node >>
  \/ node = "fixed" /\ FixedProcess
       /\ UNCHANGED << tr_vars, mv_vars, cl_vars, wr_vars, lt_vars,
                       st_vars, node >>
  \/ node = "fixed" /\ FixedProcessMissingInput
       /\ UNCHANGED << tr_vars, mv_vars, cl_vars, wr_vars, lt_vars,
                       st_vars, node >>
  \/ node = "moving" /\ MovingProcess
       /\ UNCHANGED << tr_vars, fx_vars, cl_vars, wr_vars, lt_vars,
                       st_vars, node >>
  \/ node = "moving" /\ MovingProcessMissingInput
       /\ UNCHANGED << tr_vars, fx_vars, cl_vars, wr_vars, lt_vars,
                       st_vars, node >>
  \/ node = "classifier" /\ ClassifierProcess
       /\ UNCHANGED << tr_vars, fx_vars, mv_vars, wr_vars, lt_vars,
                       st_vars, node >>
  \/ node = "classifier" /\ ClassifierProcessEmpty
       /\ UNCHANGED << tr_vars, fx_vars, mv_vars, wr_vars, lt_vars,
                       st_vars, node >>

SpecCalculators == InitCalculators /\ [][CalculatorsNext]_vars

InitWriting ==
  /\ node = "writing"
  /\ TrInit({TrOptionsExample})
  /\ FxInit({FxOptionsExample})
  /\ MvInit({MvOptionsExample})
  /\ ClInit({ClMapExample})
  /\ WrInit
  /\ LtInit
  /\ StInit

WritingNext ==
  WritingProcess
    /\ UNCHANGED << tr_vars, fx_vars, mv_vars, cl_vars, lt_vars,
                    st_vars, node >>

SpecWriting == InitWriting /\ [][WritingNext]_vars

InitStabilization ==
  /\ node = "stabilization"
  /\ TrInit({TrOptionsExample})
  /\ FxInit({FxOptionsExample})
  /\ MvInit({MvOptionsExample})
  /\ ClInit({ClMapExample})
  /\ WrInit
  /\ LtInit
  /\ StInit

StabilizationNext ==
  StabilizationProcess
    /\ UNCHANGED << tr_vars, fx_vars, mv_vars, cl_vars, wr_vars, lt_vars,
                    node >>

SpecStabilization == InitStabilization /\ [][StabilizationNext]_vars

InitLatch ==
  /\ node = "latch"
  /\ TrInit({TrOptionsExample})
  /\ FxInit({FxOptionsExample})
  /\ MvInit({MvOptionsExample})
  /\ ClInit({ClMapExample})
  /\ WrInit
  /\ LtInit
  /\ StInit

LatchNext ==
  LatchProcess
    /\ UNCHANGED << tr_vars, fx_vars, mv_vars, cl_vars, wr_vars,
                    st_vars, node >>

SpecLatch == InitLatch /\ [][LatchNext]_vars

\* The gated graph: the classifier reads every frame, its four latch outputs
\* feed the LATCH inputs of four gates, each gate stands in front of one
\* engine, and the FLAG output of each engine feeds the RESET input of its
\* gate.
ClMapGraph ==
  GestureMap(<< transitionTag, fixedTag, transitionTag, fixedTag, movingTag,
                writingTag, movingTag >>)

\* Labels the detection stream may carry (7 is not in the table).
GraphLabels == 0..7

\* The graph is followed for the frames up to this timestamp.
GraphMaxTime == 3

GraphTimestamps(prev) == { t \in NextTimestamps(prev) : t <= GraphMaxTime }

\* The sensor readings of the frames, as the fixed and the moving engine
\* read them.
GraphAngles ==
  { a \in AnglesInputs : a[0].angle1 \in { -1, 4 } /\ a[0].angle2 = -1 }

GraphSensors ==
  { in \in MvSensorInputs :
      in.landmarks[0].x \in { 0, 7 } /\ in.landmarks[1].x = 0 }

GraphLandmarks == << [x |-> 0, y |-> 0] >>

InitGraph ==
  /\ node = "graph"
  /\ TrInit(TrOptionsSet)
  /\ FxInit({FxOptionsExample})
  /\ MvInit({MvOptionsExample})
  /\ ClInit({ClMapGraph})
  /\ WrInit
  /\ LtInit
  /\ StInit

\* The gate forwarded a packet to its engine in the last call.
LtForwarded(outData) == \E i \in DOMAIN outData : outData[i] # << >>

\* The four gates on the frame (ts, label_id), after the classifier.
GraphGates(ts, label_id) ==
  \E build \in LtBuilds(lt_latched) :
    LET r == [g \in Gates |->
                LtProcessResult(lt_latched[g], lt_last_latch_state[g],
                                cl_outLatch'[g], << >>,
                                LtFrameData(ts, label_id),
                                [base |-> ts, plus |-> 0], build[g])]
    IN  /\ lt_latched' = [g \in Gates |-> r[g].latched]
        /\ lt_last_latch_state' = [g \in Gates |-> r[g].last_latch_state]
        /\ lt_outState' = [g \in Gates |-> r[g].outState]
        /\ lt_outData' = [g \in Gates |-> r[g].outData]

\* One frame through the graph: the classifier, the gates, then each engine
\* whose gate forwarded something.
GraphFrame ==
  /\ fx_status = "ok" /\ mv_status = "ok"
  /\ \A g \in Gates : lt_reset[g] = << >>
  /\ \E ts \in GraphTimestamps(cl_frame.ts),
        label_id \in GraphLabels \cup { EmptyDetection } :
       /\ IF label_id = EmptyDetection THEN ClassifierFrameEmpty(ts)
                                       ELSE ClassifierFrame(ts, label_id)
       /\ GraphGates(ts, label_id)
       /\ IF ~ LtForwarded(lt_outData'["transition"]) THEN UNCHANGED tr_vars
          ELSE IF label_id = EmptyDetection THEN TransitionFrameEmpty(ts)
          ELSE TransitionFrame(ts, label_id)
       /\ IF ~ LtForwarded(lt_outData'["fixed"]) THEN UNCHANGED fx_vars
          ELSE IF label_id = EmptyDetection THEN FixedFrameMissingInput(ts)
          ELSE \E angles \in GraphAngles : FixedFrame(ts, label_id, angles)
       /\ IF ~ LtForwarded(lt_outData'["moving"]) THEN UNCHANGED mv_vars
          ELSE IF label_id = EmptyDetection THEN MovingFrameMissingInput(ts)
          ELSE \E in \in GraphSensors : MovingFrame(ts, label_id, in)
       /\ IF ~ LtForwarded(lt_outData'["writing"]) THEN UNCHANGED wr_vars
          ELSE WritingFrame(ts, label_id, GraphLandmarks)
       /\ lt_reset' =
            [g \in Gates |->
               IF ~ LtForwarded(lt_outData'[g]) THEN << >>
               ELSE IF g = "transition" THEN tr_outFlag'
               ELSE IF g = "fixed" THEN fx_outFlag'
               ELSE IF g = "moving" THEN mv_outFlag'
               ELSE wr_outFlag']

\* The FLAG packets of the frame reach the RESET inputs: each gate that has
\* one runs Process on it, at the timestamp of the packet.
GraphFlags ==
  /\ \E g \in Gates : lt_reset[g] # << >>
  /\ LET r == [g \in Gates |->
                LtProcessResult(lt_latched[g], lt_last_latch_state[g],
                                << >>, lt_reset[g], << << >>, << >> >>,
                                lt_reset[g][1].at, FALSE)]
         called == { g \in Gates : lt_reset[g] # << >> }
     IN  /\ lt_latched' =
              [g \in Gates |->
                 IF g \in called THEN r[g].latched ELSE lt_latched[g]]
         /\ lt_last_latch_state' =
              [g \in Gates |->
                 IF g \in called THEN r[g].last_latch_state
                 ELSE lt_last_latch_state[g]]
         /\ lt_outState' =
              [g \in Gates |->
                 IF g \in called THEN r[g].outState ELSE lt_outState[g]]
         /\ lt_outData' =
              [g \in Gates |->
                 IF g \in called THEN r[g].outData ELSE lt_outData[g]]
         /\ lt_reset' = [g \in Gates |-> << >>]

GraphNext ==
  \/ GraphFrame /\ UNCHANGED << lt_obs, st_vars, node >>
  \/ GraphFlags
       /\ UNCHANGED << tr_vars, fx_vars, mv_vars, cl_vars, wr_vars, lt_obs,
                       st_vars, node >>

SpecGraph == InitGraph /\ [][GraphNext]_vars

\* ------------------------------------------------- transition engine claims
\* The engine holds no armed pair.
TrIdle == tr_currentAction = TrEmptyAction /\ tr_startingGestureTime = 0

\* The last call processed a frame (non-empty detection) while armed.
TrFrameWhileArmed ==
  tr_frame.label_id # EmptyDetection /\ tr_pre.currentAction.notEmpty

TrElapsed == tr_frame.ts - tr_pre.startingGestureTime

\* The frame of C1: the end label of the armed pair, inside the window.
TrEndInWindow ==
  /\ TrFrameWhileArmed
  /\ tr_frame.label_id = tr_pre.currentAction.endAction
  /\ TrElapsed < tr_options.time_out_s

\* C1: armed on (s,e), a frame with label e and elapsed < time_out_s emits
\* exactly one command, carrying that pair's topic and payload, and leaves
\* the engine Idle.
C1_FiresOnEndWithinTimeout ==
  TrEndInWindow =>
    /\ Len(tr_outMqtt) = 1
    /\ tr_outMqtt[1].value = << Mqtt_Message(tr_pre.currentAction.topic,
                                             tr_pre.currentAction.payload) >>
    /\ TrIdle

C1_Witness ==
  /\ TrEndInWindow
  /\ tr_pre.currentAction.startAction # tr_pre.currentAction.endAction
  /\ Len(tr_outMqtt) = 1
  /\ TrIdle

\* The frame of C2: processed while armed with elapsed >= time_out_s.
TrTimeoutFrame == TrFrameWhileArmed /\ TrElapsed >= tr_options.time_out_s

\* C2: armed, a frame with elapsed >= time_out_s (equality included) emits
\* no command, whatever its label, and leaves the engine Idle.
C2_TimeoutIsSilentAndInclusive ==
  TrTimeoutFrame => (tr_outMqtt = << >> /\ TrIdle)

\* The boundary case: elapsed equals time_out_s and the label is the end id.
C2_Witness ==
  /\ TrTimeoutFrame
  /\ TrElapsed = tr_options.time_out_s
  /\ tr_frame.label_id = tr_pre.currentAction.endAction
  /\ tr_outMqtt = << >>
  /\ TrIdle

\* ------------------------------------------------------ fixed engine claims
\* The last call processed a complete frame and returned success.
FxProcessed ==
  fx_frame.ts # NoFrameYet /\ fx_frame.complete /\ fx_status = "ok"

FxLabel == fx_frame.label_id

\* The configured entries whose start id is the label.
FxEntries(label) ==
  { fx_options.fixed_actions_map[i] :
      i \in { j \in DOMAIN fx_options.fixed_actions_map :
                fx_options.fixed_actions_map[j].start_action = label } }

\* A firing for the frame's label was on record at the top of the frame.
FxTracked ==
  fx_pre.lastGesture.notEmpty /\ fx_pre.lastGesture.start_action = FxLabel

\* Time since the firing on record at the top of the frame.
FxElapsed == fx_frame.ts - fx_pre.lastGesture.time

\* Nothing armed and no firing on record.
FxIdle ==
  fx_currentAction = FxClearedAction /\ fx_lastGesture = FxEmptyLastGesture

\* The angle an entry selects in the frame, and the windows that hold it.
FxSelectedAngle(e) ==
  IF e.angle_number = 1 THEN fx_frame.angles[e.landmark_id].angle1
  ELSE fx_frame.angles[e.landmark_id].angle2

FxMatching(e) ==
  { i \in DOMAIN e.angle_limits :
      /\ e.angle_limits[i].angle_limit_neg <= FxSelectedAngle(e)
      /\ FxSelectedAngle(e) <= e.angle_limits[i].angle_limit_pos }

FxSelects(e) == ~e.has_landmark_id \/ FxMatching(e) # {}

Highest(S) == CHOOSE x \in S : \A y \in S : y <= x

\* One packet holding exactly the command m.
FxEmitsOnly(m) == Len(fx_outMqtt) = 1 /\ fx_outMqtt[1].value = << m >>

\* The frame arms an action without angle precondition from Idle: no firing
\* for this label is on record, every entry of the label is a plain one.
FxArmsPlainFromIdle ==
  /\ FxProcessed
  /\ ~FxTracked
  /\ FxEntries(FxLabel) # {}
  /\ \A e \in FxEntries(FxLabel) : ~e.has_landmark_id

\* C3: the frame that arms a plain action from Idle emits exactly one
\* command, the single payload of an entry configured for the frame's
\* label, also right after a frame that fired for another label.
C3_PlainActionFiresOnArmingFrame ==
  FxArmsPlainFromIdle =>
    \E e \in FxEntries(FxLabel) : FxEmitsOnly(e.mqtt_message[1])

C3_Witness ==
  /\ FxArmsPlainFromIdle
  /\ fx_pre.lastGesture.notEmpty
  /\ fx_pre.lastGesture.start_action # FxLabel
  /\ fx_pre.lastGesture.time + 1 = fx_frame.ts
  /\ \E e \in FxEntries(FxLabel) : FxEmitsOnly(e.mqtt_message[1])

\* Every entry configured for the label is a one-shot (auto_repeat = false).
FxOneShotLabel(label) ==
  FxEntries(label) # {} /\ \A e \in FxEntries(label) : ~e.auto_repeat

\* Successive commands of the current hold are more than d apart.
FxHoldGapsAbove(d) ==
  \A k \in 2..Len(fx_hold.fires) :
    fx_hold.fires[k] - fx_hold.fires[k - 1] > d

\* C4 as stated: a one-shot action fires at most once in a hold, however
\* long the label is held.
C4_OneShotFiresOncePerHold ==
  FxOneShotLabel(fx_hold.label_id) => Len(fx_hold.fires) <= 1

\* C4 amended: once a one-shot action has fired, frames with the same label
\* emit nothing while the firing stays on record, and the record stays until
\* a frame with elapsed >= fixed_time_out_s; commands of one hold are more
\* than fixed_time_out_s apart.
C4_OneShotSilentUntilTimeout ==
  /\ (FxProcessed /\ FxTracked /\ FxOneShotLabel(FxLabel)) =>
       /\ fx_outMqtt = << >>
       /\ fx_lastGesture =
            IF FxElapsed < fx_options.fixed_time_out_s
              THEN fx_pre.lastGesture ELSE FxEmptyLastGesture
  /\ FxOneShotLabel(fx_hold.label_id) =>
       FxHoldGapsAbove(fx_options.fixed_time_out_s)

\* A one-shot action fired twice within one hold.
C4_Witness ==
  /\ FxProcessed
  /\ FxOneShotLabel(fx_hold.label_id)
  /\ Len(fx_hold.fires) = 2

\* The label has a single entry, and it auto-repeats.
FxRepeatEntry(label, e) == FxEntries(label) = { e } /\ e.auto_repeat

\* The time of the hold's latest command before the last frame.
FxHoldPrevFire ==
  LET n == Len(fx_hold.fires) - (IF fx_outMqtt = << >> THEN 0 ELSE 1)
  IN  IF n = 0 THEN NoFrameYet ELSE fx_hold.fires[n]

\* C5 as stated: a held auto-repeat action fires on the first frame of the
\* hold and then exactly on the frames with (timestamp - last firing) >= I,
\* so commands of one hold are at least I apart.
C5_RepeatCadenceAsStated ==
  \A e \in FxEntries(fx_hold.label_id) :
    (FxProcessed /\ FxRepeatEntry(fx_hold.label_id, e)) =>
      /\ (fx_outMqtt # << >>) <=>
           \/ fx_frame.ts = fx_hold.start
           \/ /\ FxHoldPrevFire # NoFrameYet
              /\ fx_frame.ts - FxHoldPrevFire >= e.time_between_actions
      /\ \A k \in 2..Len(fx_hold.fires) :
           fx_hold.fires[k] - fx_hold.fires[k - 1] >= e.time_between_actions

\* C5 amended: while a firing is on record the action fires exactly on the
\* frames with elapsed >= I that select a command; with no firing on record
\* (first frame of the hold, or after a timeout cleared it) it fires on every
\* frame that selects a command; commands of one hold are at least I apart
\* or more than fixed_time_out_s apart.
C5_RepeatCadence ==
  \A e \in FxEntries(fx_hold.label_id) :
    (FxProcessed /\ FxRepeatEntry(fx_hold.label_id, e)) =>
      /\ (fx_outMqtt # << >>) <=>
           /\ FxSelects(e)
           /\ FxTracked => FxElapsed >= e.time_between_actions
      /\ \A k \in 2..Len(fx_hold.fires) :
           \/ fx_hold.fires[k] - fx_hold.fires[k - 1] >= e.time_between_actions
           \/ fx_hold.fires[k] - fx_hold.fires[k - 1] > fx_options.fixed_time_out_s
      /\ fx_options.fixed_time_out_s >= e.time_between_actions =>
           \A k \in 2..Len(fx_hold.fires) :
             fx_hold.fires[k] - fx_hold.fires[k - 1] >= e.time_between_actions

\* The example of the specification: I = 1.0 s, a frame on every tick from
\* t = 0, commands at 0 s, 1 s and 2 s.
C5_Witness ==
  /\ FxProcessed
  /\ fx_options = FxOptionsRepeat
  /\ fx_hold.label_id = 1
  /\ fx_hold.start = 0
  /\ fx_frame.ts = 5
  /\ fx_hold.fires = << 0, 2, 4 >>

\* A frame at or past the timeout of the firing on record.
FxPastTimeout ==
  /\ FxProcessed
  /\ fx_pre.lastGesture.notEmpty
  /\ FxElapsed >= fx_options.fixed_time_out_s

\* C6 as stated: every frame at or past the timeout ends Idle.
C6_TimeoutAlwaysClears == FxPastTimeout => FxIdle

\* C6 amended: a frame at or past the timeout that emits nothing ends Idle,
\* auto-repeat or not; a frame that fires puts its own firing on record.
C6_TimeoutClearsUnlessFired ==
  FxPastTimeout =>
    IF fx_outMqtt = << >> THEN FxIdle
    ELSE /\ fx_currentAction = FxClearedAction
         /\ fx_lastGesture = [start_action |-> FxLabel, time |-> fx_frame.ts,
                              notEmpty |-> TRUE]

\* The boundary case on a held auto-repeat action: elapsed equals the
\* timeout, nothing is emitted, the engine ends Idle.
C6_Witness ==
  /\ FxPastTimeout
  /\ FxTracked
  /\ FxElapsed = fx_options.fixed_time_out_s
  /\ \E e \in FxEntries(FxLabel) : FxRepeatEntry(FxLabel, e)
  /\ fx_outMqtt = << >>
  /\ FxIdle

\* The frame runs executeAction on the label's single entry e: no firing on
\* record at the top of the frame, or the auto-repeat interval has elapsed.
FxEvaluates(e) ==
  /\ FxProcessed
  /\ FxEntries(FxLabel) = { e }
  /\ \/ ~FxTracked
     \/ e.auto_repeat /\ FxElapsed >= e.time_between_actions

\* C7: an evaluation of an angle action emits exactly one command when a
\* window holds the angle (bounds included), the payload of the matching
\* window of highest index, and nothing when no window holds it.
C7_AngleWindowSelection ==
  \A e \in FxEntries(FxLabel) :
    (FxEvaluates(e) /\ e.has_landmark_id) =>
      IF FxMatching(e) = {} THEN fx_outMqtt = << >>
      ELSE FxEmitsOnly(e.mqtt_message[Highest(FxMatching(e))])

\* An angle on the shared bound of two windows selects the second payload.
C7_Witness ==
  \E e \in FxEntries(FxLabel) :
    /\ FxEvaluates(e)
    /\ e.has_landmark_id
    /\ Cardinality(FxMatching(e)) = 2
    /\ FxEmitsOnly(e.mqtt_message[2])

\* An evaluation of an angle action whose angle lies in no window.
FxNoMatchEvaluation(e) ==
  FxEvaluates(e) /\ e.has_landmark_id /\ FxMatching(e) = {}

\* C8 as stated: a no-match evaluation emits nothing and leaves the engine
\* armed on the same action, unflagged, the last-fire time where it was.
C8_NoMatchKeepsArmed ==
  \A e \in FxEntries(FxLabel) :
    FxNoMatchEvaluation(e) =>
      /\ fx_outMqtt = << >>
      /\ fx_currentAction = e
      /\ fx_outFlag = << >>
      /\ fx_lastGesture.time = IF FxTracked THEN fx_pre.lastGesture.time ELSE 0

\* C8 amended: a no-match evaluation emits no command and never advances the
\* last-fire record (it is kept, or cleared when the frame also times out),
\* but it drops the armed action and raises the unarmed flag.
C8_NoMatchDropsAction ==
  \A e \in FxEntries(FxLabel) :
    FxNoMatchEvaluation(e) =>
      /\ fx_outMqtt = << >>
      /\ fx_currentAction = FxClearedAction
      /\ Len(fx_outFlag) = 1 /\ fx_outFlag[1].value = TRUE
      /\ fx_lastGesture =
           IF FxTracked /\ FxElapsed < fx_options.fixed_time_out_s
             THEN fx_pre.lastGesture ELSE FxEmptyLastGesture

\* A due auto-repeat evaluation that matches no window, before the timeout.
C8_Witness ==
  \E e \in FxEntries(FxLabel) :
    /\ FxNoMatchEvaluation(e)
    /\ FxTracked
    /\ FxElapsed < fx_options.fixed_time_out_s
    /\ fx_lastGesture = fx_pre.lastGesture
    /\ Len(fx_outFlag) = 1

\* The engine tracked another start id at the top of the frame.
FxLabelChangeFrame ==
  /\ FxProcessed
  /\ fx_pre.lastGesture.notEmpty
  /\ fx_pre.lastGesture.start_action # FxLabel

\* C10: a frame whose label differs from the tracked start id drops all
\* tracking of that id, and every command a frame emits is a payload of an
\* entry configured for that frame's label.
C10_AbortOnLabelChange ==
  /\ FxLabelChangeFrame =>
       /\ FxIsInitialized(fx_currentAction) =>
            fx_currentAction.start_action = FxLabel
       /\ fx_lastGesture.notEmpty =>
            /\ fx_lastGesture.start_action = FxLabel
            /\ fx_lastGesture.time = fx_frame.ts
  /\ FxProcessed =>
       \A p \in DOMAIN fx_outMqtt : \A k \in DOMAIN fx_outMqtt[p].value :
         \E e \in FxEntries(FxLabel) : \E i \in DOMAIN e.mqtt_message :
           fx_outMqtt[p].value[k] = e.mqtt_message[i]

\* A label change while the old action was still armed and its repeat due.
C10_Witness ==
  /\ FxLabelChangeFrame
  /\ FxIsInitialized(fx_pre.currentAction)
  /\ fx_pre.currentAction.auto_repeat
  /\ FxElapsed >= fx_pre.currentAction.time_between_actions
  /\ fx_outMqtt # << >>
  /\ fx_lastGesture.start_action = FxLabel

\* ----------------------------------------------------- moving engine claims
\* The last call processed a complete frame and returned success.
MvProcessed ==
  mv_frame.ts # NoFrameYet /\ mv_frame.complete /\ mv_status = "ok"

\* The engine was armed at the top of the frame on a start id that is not
\* the frame's label.
MvLabelChangeFrame ==
  /\ MvProcessed
  /\ MvIsInitialized(mv_pre.currentAction)
  /\ mv_pre.currentAction.start_action # mv_frame.label_id

\* C9: a frame whose label differs from the armed start id clears the engine
\* at the top of the frame, so no command of the action that was armed is
\* emitted on that frame (the clear leaves the frame to the arming branch,
\* which emits nothing).
C9_MovingAbortOnLabelChange ==
  MvLabelChangeFrame => mv_outMqtt = << >>

\* ------------------------------------------------------ arming precedence
\* The positions of the configured entries whose start id is the label.
TrMatches(label) ==
  { i \in DOMAIN tr_options.actions_map :
      tr_options.actions_map[i].startAction = label }

FxMatches(label) ==
  { i \in DOMAIN fx_options.fixed_actions_map :
      fx_options.fixed_actions_map[i].start_action = label }

MvMatches(label) ==
  { i \in DOMAIN mv_options.moving_actions_map :
      mv_options.moving_actions_map[i].start_action = label }

Lowest(S) == CHOOSE x \in S : \A y \in S : x <= y

\* An Idle engine processed a frame whose label is the start id of several
\* configured entries.
TrArmsAmongSeveral ==
  /\ tr_frame.label_id # EmptyDetection
  /\ ~tr_pre.currentAction.notEmpty
  /\ Cardinality(TrMatches(tr_frame.label_id)) > 1

FxArmsAmongSeveral ==
  /\ FxProcessed
  /\ ~FxIsInitialized(fx_pre.currentAction)
  /\ ~fx_pre.lastGesture.notEmpty
  /\ Cardinality(FxMatches(FxLabel)) > 1

MvArmsAmongSeveral ==
  /\ MvProcessed
  /\ ~MvIsInitialized(mv_pre.currentAction)
  /\ Cardinality(MvMatches(mv_frame.label_id)) > 1

\* C11, transition engine: an Idle engine that sees a label shared by
\* several pairs arms the pair that comes first in configuration order.
C11_TransitionFirstMatchWins ==
  TrArmsAmongSeveral =>
    tr_currentAction =
      tr_options.actions_map[Lowest(TrMatches(tr_frame.label_id))]

\* C11, fixed engine: the plain entry armed (and fired on the same frame)
\* is the first of the entries that share the label.
C11_FixedFirstMatchWins ==
  ( /\ FxArmsAmongSeveral
    /\ \A i \in FxMatches(FxLabel) :
         ~fx_options.fixed_actions_map[i].has_landmark_id )
  => FxEmitsOnly(
       fx_options.fixed_actions_map[Lowest(FxMatches(FxLabel))]
         .mqtt_message[1])

\* C11, moving engine: the entry armed is the first of the entries that
\* share the label.
C11_MovingFirstMatchWins ==
  MvArmsAmongSeveral =>
    mv_currentAction =
      mv_options.moving_actions_map[Lowest(MvMatches(mv_frame.label_id))]

\* C11: first match wins in the fixed, moving and transition engines: an
\* Idle engine that sees a label equal to the start id of several configured
\* entries arms the entry that comes first in configuration order.
C11_FirstMatchWins ==
  /\ C11_TransitionFirstMatchWins
  /\ C11_FixedFirstMatchWins
  /\ C11_MovingFirstMatchWins

\* ------------------------------------------- moving engine: the evaluation
\* The elapsed time the frame's tests read: since the arming or the last
\* evaluation, whichever came last.
MvElapsed == mv_frame.ts - mv_pre.startingGesture.time

\* The engine was armed at the top of the frame.
MvFrameWhileArmed == MvProcessed /\ MvIsInitialized(mv_pre.currentAction)

\* The frame performed the motion evaluation of the action armed at its top.
MvEvaluationFrame ==
  /\ MvFrameWhileArmed
  /\ MvElapsed < mv_options.moving_time_out_s
  /\ MvElapsed >= mv_pre.currentAction.time_between_actions

\* baseline - current of the armed action, read from the frame.
MvDelta ==
  LET a == mv_pre.currentAction
  IN  IF a.action_type = "TRASLATION"
        THEN mv_pre.startingGesture.lmInfo.x - mv_frame.landmarks[a.landmark_id].x
        ELSE mv_pre.startingGesture.angle -
               ( IF a.angle_number = 1
                   THEN mv_frame.angles[a.landmark_id].angle1
                   ELSE mv_frame.angles[a.landmark_id].angle2 )

Min(a, b) == IF a <= b THEN a ELSE b

\* |trunc(delta / threshold)|: whole thresholds contained in |delta|.
MvRawSteps == Abs(MvDelta) \div mv_pre.currentAction.action_threshold

\* |count| after the auto_repeat clamp and the max_repeat clamp.
MvSteps ==
  LET a == mv_pre.currentAction
      s1 == IF a.auto_repeat THEN MvRawSteps ELSE Min(MvRawSteps, 1)
  IN  IF a.has_max_repeat THEN Min(s1, a.max_repeat) ELSE s1

\* The commands the frame emitted: the content of its one packet, if any.
MvBatch == IF mv_outMqtt = << >> THEN << >> ELSE mv_outMqtt[1].value

\* C12: at an evaluation the number of commands emitted is |count|, count
\* being (baseline - current) / action_threshold truncated toward zero,
\* clamped to one step when auto_repeat is false and to max_repeat steps when
\* max_repeat is configured; the commands leave in at most one packet.
C12_Quantization ==
  MvEvaluationFrame =>
    /\ Len(mv_outMqtt) <= 1
    /\ Len(MvBatch) = MvSteps
    /\ (mv_outMqtt # << >> => MvSteps > 0)

\* An auto-repeat action capped by max_repeat moved by more thresholds than
\* the cap, against the baseline and not a whole number of thresholds.
C12_Witness ==
  /\ MvEvaluationFrame
  /\ mv_pre.currentAction.auto_repeat
  /\ mv_pre.currentAction.has_max_repeat
  /\ MvDelta < 0
  /\ Abs(MvDelta) % mv_pre.currentAction.action_threshold # 0
  /\ MvRawSteps > mv_pre.currentAction.max_repeat
  /\ Len(MvBatch) = mv_pre.currentAction.max_repeat
  /\ Len(MvBatch) > 1

\* C13: every command of one emitted batch carries the armed action's topic
\* and one payload: positive_payload when baseline - current > 0,
\* negative_payload when baseline - current < 0, the compared coordinate
\* being the tracked landmark's x for TRASLATION and the selected angle for
\* ROTATION.
C13_BatchContent ==
  (MvProcessed /\ mv_outMqtt # << >>) =>
    /\ MvFrameWhileArmed
    /\ MvDelta # 0
    /\ \A i \in DOMAIN MvBatch :
         MvBatch[i] =
           Mqtt_Message(mv_pre.currentAction.topic,
                        IF MvDelta > 0
                          THEN mv_pre.currentAction.positive_payload
                          ELSE mv_pre.currentAction.negative_payload)

\* A batch of several commands of a ROTATION action, moved in the positive
\* sense, on a frame whose landmark position moved the other way.
C13_Witness ==
  /\ MvProcessed
  /\ Len(MvBatch) > 1
  /\ mv_pre.currentAction.action_type = "ROTATION"
  /\ MvDelta > 0
  /\ mv_pre.startingGesture.lmInfo.x
       < mv_frame.landmarks[mv_pre.currentAction.landmark_id].x
  /\ MvBatch[1].payload = mv_pre.currentAction.positive_payload

\* The engine holds nothing: no armed action, no baseline.
MvIdle ==
  /\ mv_currentAction = MvClearedAction
  /\ mv_startingGesture = MvEmptyStartingGesture

\* C14: an evaluation clears the engine to Idle if and only if it emitted at
\* least one command; an evaluation with count = 0 emits nothing, leaves the
\* engine armed on the same action with the same baseline position and
\* angle, and only sets the evaluation clock to the frame's timestamp.
C14_ClearOnFire ==
  MvEvaluationFrame =>
    /\ (MvIdle <=> mv_outMqtt # << >>)
    /\ (MvSteps = 0 =>
          /\ mv_outMqtt = << >>
          /\ mv_currentAction = mv_pre.currentAction
          /\ mv_startingGesture =
               [mv_pre.startingGesture EXCEPT !.time = mv_frame.ts])
    /\ (MvSteps > 0 => MvIdle /\ mv_outFlag # << >>)

\* An evaluation that found a movement smaller than the threshold: the
\* engine stays armed with the baseline it had and the new clock.
C14_Witness ==
  /\ MvEvaluationFrame
  /\ MvSteps = 0
  /\ MvDelta # 0
  /\ MvIsInitialized(mv_currentAction)
  /\ mv_startingGesture.time = mv_frame.ts
  /\ mv_startingGesture.time # mv_pre.startingGesture.time
  /\ mv_startingGesture.lmInfo = mv_pre.startingGesture.lmInfo

\* C15: an armed moving engine that emits no command is cleared to Idle no
\* later than the first processed frame whose timestamp is at or after the
\* arm timestamp plus moving_time_out_s: an engine still armed at the end of
\* a frame was armed less than moving_time_out_s before that frame.
C15_IdleTimeoutFromArming ==
  (MvProcessed /\ MvIsInitialized(mv_currentAction)) =>
    mv_frame.ts < mv_armedAt + mv_options.moving_time_out_s

\* The frame reached the timeout at its top: nothing is evaluated.
MvTimeoutFrame ==
  MvFrameWhileArmed /\ MvElapsed >= mv_options.moving_time_out_s

\* The statement as claimed: every frame armed at its top and with the
\* sample interval elapsed performs the evaluation, timeout or not.
C16_EvaluationIndependentOfTimeout ==
  (MvFrameWhileArmed
     /\ MvElapsed >= mv_pre.currentAction.time_between_actions)
  => Len(MvBatch) = MvSteps

\* C16: on a frame after the arming frame where the engine is armed at the
\* top of the frame, the timeout is tested first, on the same clock as the
\* sample interval: with elapsed >= moving_time_out_s the engine is cleared
\* and nothing is evaluated or emitted; with elapsed < moving_time_out_s and
\* elapsed >= time_between_actions the evaluation is performed (|count|
\* commands, clock set to the frame's timestamp if count = 0).  An action
\* with time_between_actions >= moving_time_out_s never emits a command.
C16_EvaluationBelowTimeoutOnly ==
  /\ MvTimeoutFrame =>
       /\ mv_outMqtt = << >>
       /\ MvIdle
       /\ mv_outFlag # << >>
  /\ MvEvaluationFrame =>
       /\ Len(MvBatch) = MvSteps
       /\ (MvSteps = 0 => mv_startingGesture.time = mv_frame.ts)
  /\ (MvProcessed /\ mv_outMqtt # << >>) =>
       mv_pre.currentAction.time_between_actions
         < mv_options.moving_time_out_s

\* The sample interval and the timeout expire on the same frame, the
\* landmark moved by more than the threshold, and nothing is emitted.
C16_Witness ==
  /\ MvTimeoutFrame
  /\ MvElapsed = mv_options.moving_time_out_s
  /\ MvElapsed >= mv_pre.currentAction.time_between_actions
  /\ MvSteps > 0
  /\ mv_outMqtt = << >>
  /\ MvIdle

\* ------------------------------------- transition engine: other labels
\* A frame while armed, before the timeout, whose label is not the end id.
TrOtherLabelFrame ==
  /\ TrFrameWhileArmed
  /\ TrElapsed < tr_options.time_out_s
  /\ tr_frame.label_id # tr_pre.currentAction.endAction

\* C17: while armed on (s,e) and before the timeout, a frame whose label is
\* not e changes nothing: the armed pair and the arm timestamp are as they
\* were and neither a command nor the unarmed flag is emitted, whatever the
\* label is (s again, the start id of another pair, an unknown id).
C17_IntermediateLabelsIgnored ==
  TrOtherLabelFrame =>
    /\ tr_currentAction = tr_pre.currentAction
    /\ tr_startingGestureTime = tr_pre.startingGestureTime
    /\ tr_mqttMessages = << >>
    /\ tr_outMqtt = << >>
    /\ tr_outFlag = << >>

\* Armed on a pair, the frame carries the start id of another pair (which
\* is not the armed pair's start id), after the arming frame.
C17_Witness ==
  /\ TrOtherLabelFrame
  /\ tr_frame.label_id # tr_pre.currentAction.startAction
  /\ TrMatches(tr_frame.label_id) # {}
  /\ tr_frame.ts > tr_pre.startingGestureTime
  /\ tr_currentAction = tr_pre.currentAction
  /\ tr_currentAction.notEmpty

\* ------------------------------------------------------- classifier claims
\* The last call processed a frame with a non-empty Detection.
ClProcessed ==
  cl_frame.ts # NoFrameYet /\ cl_frame.label_id # EmptyDetection

\* The category the table gives the frame's label: the text of the id when
\* it is exactly one of the four category names, "unresolved" otherwise.
ClCategory ==
  IF cl_frame.label_id \notin DOMAIN cl_gesture_map THEN "unresolved"
  ELSE LET text == cl_gesture_map[cl_frame.label_id]
       IN  IF text = transitionTag THEN "transition"
           ELSE IF text = movingTag THEN "moving"
           ELSE IF text = writingTag THEN "writing"
           ELSE IF text = fixedTag THEN "fixed"
           ELSE "unresolved"

ClCategories == { "transition", "moving", "writing", "fixed" }

\* Exactly one packet on the latch output of category c, at the input
\* timestamp, holding value v.
ClLatchIs(c, v) ==
  cl_outLatch[c] = << PacketAt(cl_frame.ts, 0, v) >>

\* C18: on every frame with a non-empty Detection the classifier emits
\* exactly one boolean on each of the four latch outputs at the input
\* timestamp; the latch of the category whose name is the table text of the
\* label id is true and the other three are false; when the id is not in the
\* table or its text is none of the four names all four are false.
C18_OneHotRouting ==
  ClProcessed =>
    \A c \in ClCategories : ClLatchIs(c, c = ClCategory)

\* C19: the TBD release packet is emitted on a frame if and only if the
\* frame's label is unresolved (id not in the table, or text none of the
\* four category names); it is stamped with the next allowed timestamp after
\* the input timestamp, and no frame that sets a latch true emits it.
C19_ReleaseOnlyWhenUnresolved ==
  ClProcessed =>
    /\ (cl_outTBD # << >> <=> ClCategory = "unresolved")
    /\ \A i \in DOMAIN cl_outTBD :
         cl_outTBD[i] = [at |-> NextAllowedInStream(cl_frame.ts),
                         value |-> TRUE]
    /\ (cl_outTBD # << >> =>
          \A c \in ClCategories : ClLatchIs(c, FALSE))

\* ------------------------------------------------------- empty detections
\* The last call of the calculator had an empty DETECTIONS input.
ClEmptyFrame ==
  cl_frame.ts # NoFrameYet /\ cl_frame.label_id = EmptyDetection

TrEmptyFrame ==
  tr_frame.ts # NoFrameYet /\ tr_frame.label_id = EmptyDetection

\* C20: a Process call of the classifier or of the transition engine whose
\* DETECTIONS input is empty emits no packet on any output (no latch, no
\* release, no command, no unarmed flag) and leaves the engine state (armed
\* pair, arm timestamp) as it was, so no timeout is evaluated on that frame.
C20_EmptyDetectionIsNoOp ==
  /\ ClEmptyFrame => (cl_outLatch = ClNoLatch /\ cl_outTBD = << >>)
  /\ TrEmptyFrame =>
       /\ tr_outMqtt = << >>
       /\ tr_outFlag = << >>
       /\ tr_currentAction = tr_pre.currentAction
       /\ tr_startingGestureTime = tr_pre.startingGestureTime
       /\ tr_mqttMessages = << >>

\* An empty frame reaches both calculators while the transition engine is
\* armed and its timeout has elapsed: the pair stays armed.
C20_Witness ==
  /\ ClEmptyFrame
  /\ TrEmptyFrame
  /\ tr_pre.currentAction.notEmpty
  /\ TrElapsed >= tr_options.time_out_s
  /\ tr_currentAction.notEmpty
  /\ tr_outFlag = << >>
  /\ cl_outLatch = ClNoLatch

\* --------------------------------------------------- missing mandatory input
\* The last call of the engine had DETECTIONS, NORM_LANDMARKS or ANGLES empty.
FxIncompleteFrame == fx_frame.ts # NoFrameYet /\ ~fx_frame.complete

MvIncompleteFrame == mv_frame.ts # NoFrameYet /\ ~mv_frame.complete

\* C21: in the fixed and moving engines a frame on which DETECTIONS,
\* NORM_LANDMARKS or ANGLES is empty makes Process return an error, emit no
\* command and no flag, and leave the engine state (armed action, baseline,
\* timestamps) exactly as it was before the call.
C21_MissingInputIsFatal ==
  /\ FxIncompleteFrame =>
       /\ fx_status = "error"
       /\ fx_outMqtt = << >>
       /\ fx_outFlag = << >>
       /\ fx_currentAction = fx_pre.currentAction
       /\ fx_lastGesture = fx_pre.lastGesture
  /\ MvIncompleteFrame =>
       /\ mv_status = "error"
       /\ mv_outMqtt = << >>
       /\ mv_outFlag = << >>
       /\ mv_currentAction = mv_pre.currentAction
       /\ mv_startingGesture = mv_pre.startingGesture

\* An armed moving engine, with a baseline away from zero and past its
\* timeout, is handed an incomplete frame.
C21_Witness ==
  /\ MvIncompleteFrame
  /\ mv_status = "error"
  /\ MvIsInitialized(mv_currentAction)
  /\ mv_startingGesture.lmInfo.x # 0
  /\ mv_frame.ts - mv_startingGesture.time >= mv_options.moving_time_out_s

\* ------------------------------------------------ configuration validation
\* The configured entries with an angle selector whose windows and payloads
\* differ in number.
FxMismatched ==
  { i \in DOMAIN fx_options.fixed_actions_map :
      LET e == fx_options.fixed_actions_map[i]
      IN  e.has_landmark_id /\ Len(e.angle_limits) # Len(e.mqtt_message) }

\* C22: a configuration holding an action with an angle selector whose number
\* of angle windows differs from its number of payload entries is rejected
\* before any frame is processed: no Process call succeeds, no command is
\* produced and the engine never holds the invalid action as armed action.
C22_ValidatedAtLoad ==
  FxMismatched # {} =>
    /\ (fx_frame.ts # NoFrameYet => fx_status = "error")
    /\ fx_outMqtt = << >>
    /\ \A i \in FxMismatched :
         fx_currentAction # fx_options.fixed_actions_map[i]

\* The three parts of the statement, one by one.
C22_NoCallSucceeds ==
  FxMismatched # {} => (fx_frame.ts # NoFrameYet => fx_status = "error")

C22_NoCommand == FxMismatched # {} => fx_outMqtt = << >>

C22_NeverHoldsInvalid ==
  FxMismatched # {} =>
    \A i \in FxMismatched :
      fx_currentAction # fx_options.fixed_actions_map[i]

\* ------------------------------------------------------- packets per frame
\* The timestamp that follows ts in a stream.
NextTick(ts) == [base |-> ts, plus |-> 1]

\* At most one packet, stamped with the tick after the frame's timestamp.
OnePacketAtMost(out, ts) ==
  /\ Len(out) <= 1
  /\ \A i \in DOMAIN out : out[i].at = NextTick(ts)

\* C23: in one Process call each engine (fixed, moving, transition) adds at
\* most one packet to MQTT_MESSAGE and at most one to FLAG, both stamped with
\* the next allowed timestamp after the input timestamp; a fixed or
\* transition batch holds exactly one command, a moving batch holds its
\* commands in the order they were appended (one or more).
C23_OneBatchPerFrame ==
  /\ OnePacketAtMost(tr_outMqtt, tr_frame.ts)
  /\ OnePacketAtMost(tr_outFlag, tr_frame.ts)
  /\ \A i \in DOMAIN tr_outMqtt : Len(tr_outMqtt[i].value) = 1
  /\ OnePacketAtMost(fx_outMqtt, fx_frame.ts)
  /\ OnePacketAtMost(fx_outFlag, fx_frame.ts)
  /\ \A i \in DOMAIN fx_outMqtt : Len(fx_outMqtt[i].value) = 1
  /\ OnePacketAtMost(mv_outMqtt, mv_frame.ts)
  /\ OnePacketAtMost(mv_outFlag, mv_frame.ts)
  /\ \A i \in DOMAIN mv_outMqtt :
       /\ Len(mv_outMqtt[i].value) >= 1
       /\ mv_outMqtt[i].value =
            MvAppendMessages(<< >>, mv_pre.currentAction,
                             IF MvDelta > 0 THEN Len(mv_outMqtt[i].value)
                             ELSE -Len(mv_outMqtt[i].value), 1)

\* A moving frame that adds a batch of several commands and the flag, after
\* an earlier frame.
C23_Witness ==
  /\ node = "moving"
  /\ mv_frame.ts > 0
  /\ Len(mv_outMqtt) = 1
  /\ Len(mv_outMqtt[1].value) > 1
  /\ Len(mv_outFlag) = 1
  /\ mv_outFlag[1].at = NextTick(mv_frame.ts)

\* ---------------------------------------------------------- unarmed flags
\* The last call of the transition engine processed a non-empty detection.
TrProcessed ==
  tr_frame.ts # NoFrameYet /\ tr_frame.label_id # EmptyDetection

\* The frame's FLAG output is one packet holding true.
TrFlagged == tr_outFlag = << [at |-> NextTick(tr_frame.ts), value |-> TRUE] >>

MvFlagged == mv_outFlag = << [at |-> NextTick(mv_frame.ts), value |-> TRUE] >>

\* FLAG carries true exactly on the frames that end without an armed action.
TrFlagIffUnarmed ==
  TrProcessed =>
    /\ (TrFlagged <=> ~tr_currentAction.notEmpty)
    /\ (tr_outFlag = << >> <=> tr_currentAction.notEmpty)
    /\ (tr_outMqtt # << >> => TrFlagged)
    /\ (TrTimeoutFrame => TrFlagged)

MvFlagIffUnarmed ==
  MvProcessed =>
    /\ (MvFlagged <=> ~MvIsInitialized(mv_currentAction))
    /\ (mv_outFlag = << >> <=> MvIsInitialized(mv_currentAction))
    /\ (mv_outMqtt # << >> => MvFlagged)
    /\ (MvTimeoutFrame => MvFlagged)

FxFlagged == fx_outFlag = << [at |-> NextTick(fx_frame.ts), value |-> TRUE] >>

\* The frame fired a command and its gesture stays tracked: the firing is on
\* record for the frame's label at the end of the frame.
FxFiredAndTracked ==
  /\ FxProcessed
  /\ fx_outMqtt # << >>
  /\ fx_lastGesture.notEmpty
  /\ fx_lastGesture.start_action = FxLabel

\* The statement as claimed: the flag goes with Idle, and a frame that fires
\* while the gesture stays tracked ends Armed without flag.
C25_NoFlagOnTrackedFiring ==
  FxProcessed =>
    /\ (FxFlagged <=> FxIdle)
    /\ (FxFiredAndTracked =>
          FxIsInitialized(fx_currentAction) /\ fx_outFlag = << >>)

\* C25: the FLAG output of the fixed engine carries true on a frame if and
\* only if the engine holds no armed action at the end of that frame.  A
\* frame that fires a command always ends without armed action and with the
\* flag, also when the firing stays on record and the gesture stays tracked;
\* the frames of a tracked gesture that evaluate nothing and reach no
\* timeout end Armed and carry no flag.
C25_FlagIffNoArmedAction ==
  FxProcessed =>
    /\ (FxFlagged <=> ~FxIsInitialized(fx_currentAction))
    /\ (fx_outFlag = << >> <=> FxIsInitialized(fx_currentAction))
    /\ (fx_outMqtt # << >> => FxFlagged)
    /\ ( ( /\ FxTracked
           /\ FxElapsed < fx_options.fixed_time_out_s
           /\ \A e \in FxEntries(FxLabel) :
                ~e.auto_repeat \/ FxElapsed < e.time_between_actions )
         => (fx_outFlag = << >> /\ fx_outMqtt = << >>) )

\* An auto-repeat firing of a tracked gesture, below the timeout: the firing
\* is on record and the flag is emitted.
C25_Witness ==
  /\ FxFiredAndTracked
  /\ FxTracked
  /\ FxElapsed < fx_options.fixed_time_out_s
  /\ FxFlagged
  /\ ~FxIsInitialized(fx_currentAction)

\* ------------------------------------------------------------- determinism
\* The end state and the outputs of the last call are the result of Process
\* on the state at the top of the call and the frame, and on nothing else.
TrReplays ==
  TrProcessed =>
    LET r == TrProcessResult(tr_options, tr_pre.currentAction,
                             tr_pre.startingGestureTime, << >>,
                             tr_frame.ts, tr_frame.label_id)
    IN  /\ tr_currentAction = r.currentAction
        /\ tr_startingGestureTime = r.startingGestureTime
        /\ tr_mqttMessages = r.mqttMessages
        /\ tr_outMqtt = r.outMqtt
        /\ tr_outFlag = r.outFlag

FxReplays ==
  (fx_frame.ts # NoFrameYet /\ fx_frame.complete) =>
    LET r == FxProcessResult(fx_options, fx_pre.currentAction,
                             fx_pre.lastGesture, << >>, fx_frame.ts,
                             fx_frame.label_id, fx_frame.angles)
    IN  /\ fx_currentAction = r.currentAction
        /\ fx_lastGesture = r.lastGesture
        /\ fx_mqttMessages = r.mqttMessages
        /\ fx_outMqtt = r.outMqtt
        /\ fx_outFlag = r.outFlag
        /\ fx_status = r.status

MvReplays ==
  (mv_frame.ts # NoFrameYet /\ mv_frame.complete) =>
    LET r == MvProcessResult(mv_options, mv_pre.currentAction,
                             mv_pre.startingGesture, << >>, mv_frame.ts,
                             mv_frame.label_id, mv_frame.landmarks,
                             mv_frame.angles)
    IN  /\ mv_currentAction = r.currentAction
        /\ mv_startingGesture = r.startingGesture
        /\ mv_mqttMessages = r.mqttMessages
        /\ mv_outMqtt = r.outMqtt
        /\ mv_outFlag = r.outFlag

ClReplays ==
  ClProcessed =>
    LET r == ClProcessResult(cl_gesture_map, cl_frame.ts, cl_frame.label_id)
    IN  cl_outLatch = r.latch /\ cl_outTBD = r.tbd

\* Before the first frame every calculator is in the one state Open leaves.
OpenedAlike ==
  /\ tr_frame.ts = NoFrameYet =>
       (tr_currentAction = TrEmptyAction /\ tr_startingGestureTime = 0)
  /\ fx_frame.ts = NoFrameYet =>
       (fx_currentAction = FxClearedAction
          /\ fx_lastGesture = FxEmptyLastGesture)
  /\ mv_frame.ts = NoFrameYet =>
       (mv_currentAction = MvClearedAction
          /\ mv_startingGesture = MvEmptyStartingGesture)

GatesOpen == { g \in Gates : lt_latched[g].assigned /\ lt_latched[g].value }

GatesForwarding == { g \in Gates : LtForwarded(lt_outData[g]) }

\* C27: in the gated graph, after any sequence of frames at most one of the
\* four gates is open and at most one of the four engines received a packet
\* of the last frame.
C27_ExclusiveGating ==
  /\ Cardinality(GatesOpen) <= 1
  /\ Cardinality(GatesForwarding) <= 1

\* The same, for the frames that carry a detection.
C27_ExclusiveOnDetection ==
  cl_frame.label_id # EmptyDetection => C27_ExclusiveGating

\* ------------------------------------------------------ idempotence claims
\* The last call processed a frame whose label is the start id of the action
\* the engine held at the top of the call, and none of the engine's clocks
\* had run out on that frame: no timeout, and no auto-repeat (fixed) or
\* sample interval (moving) due.
TrRedelivery ==
  /\ tr_frame.label_id # EmptyDetection
  /\ tr_pre.currentAction.notEmpty
  /\ tr_pre.currentAction.startAction = tr_frame.label_id
  /\ (tr_frame.ts - tr_pre.startingGestureTime) < tr_options.time_out_s

FxRedelivery ==
  /\ fx_frame.ts # NoFrameYet /\ fx_frame.complete
  /\ fx_pre.currentAction.has_start_action
  /\ fx_pre.currentAction.start_action = fx_frame.label_id
  /\ (fx_frame.ts - fx_pre.lastGesture.time) < fx_options.fixed_time_out_s
  /\ ~ /\ fx_pre.currentAction.auto_repeat
       /\ (fx_frame.ts - fx_pre.lastGesture.time)
            >= fx_pre.currentAction.time_between_actions

MvRedelivery ==
  /\ mv_frame.ts # NoFrameYet /\ mv_frame.complete
  /\ mv_pre.currentAction.has_start_action
  /\ mv_pre.currentAction.start_action = mv_frame.label_id
  /\ (mv_frame.ts - mv_pre.startingGesture.time)
       < mv_options.moving_time_out_s
  /\ (mv_frame.ts - mv_pre.startingGesture.time)
       < mv_pre.currentAction.time_between_actions

\* The call left the engine as it found it and added no packet.
TrNoEffect ==
  /\ tr_currentAction = tr_pre.currentAction
  /\ tr_startingGestureTime = tr_pre.startingGestureTime
  /\ tr_mqttMessages = << >>
  /\ tr_outMqtt = << >> /\ tr_outFlag = << >>

FxNoEffect ==
  /\ fx_currentAction = fx_pre.currentAction
  /\ fx_lastGesture = fx_pre.lastGesture
  /\ fx_mqttMessages = << >>
  /\ fx_outMqtt = << >> /\ fx_outFlag = << >>

MvNoEffect ==
  /\ mv_currentAction = mv_pre.currentAction
  /\ mv_startingGesture = mv_pre.startingGesture
  /\ mv_mqttMessages = << >>
  /\ mv_outMqtt = << >> /\ mv_outFlag = << >>

\* C28 as stated: in each of the three engines, a frame that re-delivers the
\* start id of the armed action while no clock has run out changes no engine
\* state and emits nothing.
C28_Idempotent ==
  /\ TrRedelivery => TrNoEffect
  /\ FxRedelivery => FxNoEffect
  /\ MvRedelivery => MvNoEffect

\* C28, amended: the same, except that the transition engine fires a pair
\* whose end id equals its start id when the start id is delivered again.
C28_IdempotentUnlessEndIsStart ==
  /\ TrRedelivery
       /\ tr_pre.currentAction.endAction # tr_pre.currentAction.startAction
       => TrNoEffect
  /\ FxRedelivery => FxNoEffect
  /\ MvRedelivery => MvNoEffect

C28_Witness ==
  /\ TrRedelivery
  /\ tr_pre.currentAction.endAction # tr_pre.currentAction.startAction
  /\ TrNoEffect

C28_WitnessFixed == FxRedelivery /\ FxNoEffect

C28_WitnessMoving == MvRedelivery /\ MvNoEffect

\* --------------------------------------------------------- routing claims
\* The engines that were handed the last frame of the graph.
GraphReceived ==
  { g \in Gates :
      /\ cl_frame.ts # NoFrameYet
      /\ \/ g = "transition" /\ tr_frame.ts = cl_frame.ts
         \/ g = "fixed" /\ fx_frame.ts = cl_frame.ts
         \/ g = "moving" /\ mv_frame.ts = cl_frame.ts
         \/ g = "writing" /\ wr_frame.ts = cl_frame.ts }

\* The table text of the last frame's label is the given category name.
GraphRoutedTo(tag) ==
  /\ cl_frame.label_id # EmptyDetection
  /\ ClOutLabel(cl_gesture_map, cl_frame.label_id) = tag

\* The engine held nothing when the last frame of the graph arrived.
TrIdleAtTop ==
  IF "transition" \in GraphReceived THEN ~ tr_pre.currentAction.notEmpty
  ELSE ~ tr_currentAction.notEmpty

FxIdleAtTop ==
  IF "fixed" \in GraphReceived
    THEN /\ ~ fx_pre.currentAction.has_start_action
         /\ ~ fx_pre.lastGesture.notEmpty
    ELSE /\ ~ fx_currentAction.has_start_action
         /\ ~ fx_lastGesture.notEmpty

MvIdleAtTop ==
  IF "moving" \in GraphReceived
    THEN ~ mv_pre.currentAction.has_start_action
    ELSE ~ mv_currentAction.has_start_action

\* The fixed engine took up the action: it sent one of the action's commands
\* and tracks the action's start id.
FxTookUp(a) ==
  /\ fx_lastGesture.notEmpty
  /\ fx_lastGesture.start_action = a.start_action
  /\ fx_outMqtt # << >>
  /\ \E k \in DOMAIN a.mqtt_message :
       fx_outMqtt[1].value = << a.mqtt_message[k] >>

\* C29: for every configured action of an idle engine whose start id the
\* table maps to the engine's category, a frame with that label is handed to
\* that engine only and leaves the engine armed on that action.
C29_RoundTrip ==
  /\ \A i \in DOMAIN tr_options.actions_map :
       GraphRoutedTo(transitionTag) /\ TrIdleAtTop
         /\ tr_options.actions_map[i].startAction = cl_frame.label_id
       => /\ GraphReceived = { "transition" }
          /\ tr_currentAction = tr_options.actions_map[i]
  /\ \A i \in DOMAIN fx_options.fixed_actions_map :
       GraphRoutedTo(fixedTag) /\ FxIdleAtTop
         /\ fx_options.fixed_actions_map[i].start_action = cl_frame.label_id
       => /\ GraphReceived = { "fixed" }
          /\ FxTookUp(fx_options.fixed_actions_map[i])
  /\ \A i \in DOMAIN mv_options.moving_actions_map :
       GraphRoutedTo(movingTag) /\ MvIdleAtTop
         /\ mv_options.moving_actions_map[i].start_action = cl_frame.label_id
       => /\ GraphReceived = { "moving" }
          /\ mv_currentAction = mv_options.moving_actions_map[i]

\* The routing half of C29: the frame is handed to the engine of the label's
\* category and to no other.
C29_HandedToItsEngineOnly ==
  /\ GraphRoutedTo(transitionTag) => GraphReceived = { "transition" }
  /\ GraphRoutedTo(fixedTag) => GraphReceived = { "fixed" }
  /\ GraphRoutedTo(movingTag) => GraphReceived = { "moving" }
  /\ GraphRoutedTo(writingTag) => GraphReceived = { "writing" }

\* The arming half of C29 for the transition and the moving engine, with
\* "the last configured action with that start id" in place of "every".
C29_ArmsLastMatch ==
  /\ GraphRoutedTo(transitionTag) /\ TrIdleAtTop
       /\ TrMatches(cl_frame.label_id) # {}
     => LET m == TrMatches(cl_frame.label_id)
        IN  tr_currentAction =
              tr_options.actions_map[CHOOSE i \in m : \A j \in m : j <= i]
  /\ GraphRoutedTo(movingTag) /\ MvIdleAtTop
       /\ MvMatches(cl_frame.label_id) # {}
     => LET m == MvMatches(cl_frame.label_id)
        IN  mv_currentAction =
              mv_options.moving_actions_map[CHOOSE i \in m :
                                              \A j \in m : j <= i]

\* --------------------------------------------------- writing engine claims
\* The last call of the writing engine processed a frame.
WrProcessed == wr_frame.ts # NoFrameYet

\* C30: every Process call of the writing engine emits exactly one flag with
\* value true at the timestamp after the frame's, emits no command packet,
\* and leaves every member (trajectory, region of interest, corner counter,
\* flags) as it was, whatever the inputs are.
C30_ConstantFlagOnly ==
  WrProcessed =>
    /\ wr_outFlag = << [at |-> [base |-> wr_frame.ts, plus |-> 1],
                        value |-> TRUE] >>
    /\ wr_outMqtt = << >>
    /\ wr_state = wr_pre

\* A call on a frame that carries the tracked landmark and a label.
C30_Witness ==
  /\ WrProcessed
  /\ wr_frame.landmarks # << >>
  /\ wr_frame.label_id # EmptyDetection
  /\ wr_outFlag # << >>

\* ------------------------------------------------- latch calculator claims
\* The gate driven alone has processed an input set.
LtProcessed == lt_frame.ts # NoFrameYet

\* Every data packet of the last input set is on the output of the same
\* index, unchanged and at the frame's timestamp.
LtForwardedAll ==
  /\ lt_outData[LatchGate] = lt_frame.data
  /\ \A i \in DOMAIN lt_frame.data :
       lt_frame.data[i] # << >> =>
         lt_outData[LatchGate][i][1].at = [base |-> lt_frame.ts, plus |-> 0]

\* No data packet is on any output.
LtForwardedNone ==
  \A i \in DOMAIN lt_outData[LatchGate] : lt_outData[LatchGate][i] = << >>

C31_WitnessOff ==
  /\ LtProcessed
  /\ lt_expect = "off"
  /\ lt_frame.latch = << >> /\ lt_frame.reset = << >>
  /\ \E i \in DOMAIN lt_frame.data : lt_frame.data[i] # << >>
  /\ LtForwardedNone

\* The value of latched at the top of the last call was an assigned one.
LtWasAssigned == lt_pre.latched.assigned

\* The last call carried a RESET packet with the given value.
LtResetWas(b) == lt_frame.reset # << >> /\ lt_frame.reset[1].value = b

\* What the LATCH input of the last call alone asks for: its value, or the
\* value latched had when no LATCH packet came.
LtWithoutReset ==
  IF lt_frame.latch # << >> THEN lt_frame.latch[1].value
  ELSE lt_pre.latched.value

\* First part of C32: a RESET packet carrying true turns the latch off, also
\* when a LATCH packet carrying true is in the same input set.
C32_ResetTrueTurnsOff ==
  LtProcessed /\ LtResetWas(TRUE) =>
    /\ ~ lt_latched[LatchGate].value
    /\ LtForwardedNone

\* C32: RESET only disables.  RESET true turns the latch off; RESET false
\* leaves the latch as it would be without the packet; a closed latch is
\* opened only by a LATCH packet carrying true.
C32_ResetOnlyDisables ==
  LtProcessed =>
    /\ C32_ResetTrueTurnsOff
    /\ LtResetWas(FALSE) /\ (LtWasAssigned \/ lt_frame.latch # << >>)
         => lt_latched[LatchGate].value = LtWithoutReset
    /\ LtWasAssigned /\ ~ lt_pre.latched.value
         /\ lt_latched[LatchGate].value
         => lt_frame.latch # << >> /\ lt_frame.latch[1].value

\* The latch state the last call left differs from the one the call before
\* it left.
LtStateChanged == lt_latched[LatchGate].value # lt_pre.latched.value

\* C34: a STATE_CHANGE packet is emitted by a call if and only if the latch
\* state after it differs from the state after the previous call; the packet
\* carries the new state at the input timestamp; the first call emits none.
C34_StateChange ==
  LtProcessed =>
    IF ~ LtWasAssigned
      THEN lt_outState[LatchGate] = << >>
      ELSE IF LtStateChanged
             THEN lt_outState[LatchGate] =
                    << [at |-> [base |-> lt_frame.ts, plus |-> 0],
                        value |-> lt_latched[LatchGate].value] >>
             ELSE lt_outState[LatchGate] = << >>

\* A later call that closes an open latch and reports it.
C34_Witness ==
  /\ LtProcessed /\ LtWasAssigned
  /\ lt_pre.latched.value /\ ~ lt_latched[LatchGate].value
  /\ lt_outState[LatchGate] # << >>

\* A first call that opens the latch and reports nothing.
C34_WitnessFirst ==
  /\ LtProcessed /\ ~ LtWasAssigned
  /\ lt_latched[LatchGate].value
  /\ lt_outState[LatchGate] = << >>

\* --------------------------------------------------- stabilization claims
\* The number of entries of the history that hold class c.
StCount(history, c) ==
  Cardinality({ k \in DOMAIN history : history[k] = c })

\* Class c occurs in the history more often than every other class.
StMostFrequent(history, c) ==
  \A d \in 0..(NumClasses - 1) :
    d # c => StCount(history, d) < StCount(history, c)

\* The class of the detection the last call put out.
StOutClass == st_out[1].value[1].label_id

\* C33: once QueueSize inputs have arrived, the class of the output is the
\* class that occurs most often among the last QueueSize inputs, so one
\* deviating input in a run of equal classes does not change the output.
C33_OutputIsMostFrequent ==
  /\ st_frame.ts # NoFrameYet
  /\ Len(st_history) = QueueSize
  => \A c \in 0..(NumClasses - 1) :
       StMostFrequent(st_history, c) => StOutClass = c

\* The corner phase is never cleared and the ratio flag is never set: the
\* statements that set accute_angle_cleared and minimun_ratio_trigered, and
\* the call of ProcessROI, lie inside the block comment of Process.
WrCornerPhaseNeverCleared ==
  /\ ~ wr_state.accute_angle_cleared
  /\ ~ wr_state.minimun_ratio_trigered
  /\ wr_state.point_list = << >>

\* ---- C36: no command on the arming frame ----

\* The step is a Process call of the transition / moving engine.
TrStep == tr_frame' # tr_frame
MvStep == mv_frame' # mv_frame /\ mv_status' = "ok"

\* C36: the transition and moving engines never emit a command on the frame
\* in which they arm.  A transition command is emitted only by an engine that
\* an earlier frame armed (so it needs two processed frames, also for a pair
\* whose start id equals its end id), and a moving command is emitted only on
\* a frame later than the arming frame whose timestamp is at least the arm
\* time plus time_between_actions of the armed action.
C36_NoCommandOnArmingFrame ==
  [][ /\ (TrStep /\ ~tr_currentAction.notEmpty) => tr_outMqtt' = << >>
      /\ (TrStep /\ tr_outMqtt' # << >>) =>
           /\ tr_currentAction.notEmpty
           /\ tr_frame.ts # NoFrameYet
           /\ tr_startingGestureTime < tr_frame'.ts
           /\ tr_frame'.label_id = tr_currentAction.endAction
      /\ (MvStep /\ ~MvIsInitialized(mv_currentAction)) => mv_outMqtt' = << >>
      /\ (MvStep /\ mv_outMqtt' # << >>) =>
           /\ MvIsInitialized(mv_currentAction)
           /\ mv_armedAt # NoFrameYet
           /\ mv_armedAt < mv_frame'.ts
           /\ mv_frame'.ts >=
                mv_armedAt + mv_currentAction.time_between_actions
    ]_vars

\* A pair whose start id equals its end id fired on the second frame that
\* carried its label: the first one armed the engine and emitted nothing.
C36_Witness ==
  /\ tr_outMqtt # << >>
  /\ tr_pre.currentAction.notEmpty
  /\ tr_pre.currentAction.startAction = tr_pre.currentAction.endAction
  /\ tr_frame.label_id = tr_pre.currentAction.startAction
  /\ tr_pre.startingGestureTime < tr_frame.ts

\* The moving engine armed and emitted nothing on that frame.
C36_WitnessArming ==
  /\ MvProcessed
  /\ ~MvIsInitialized(mv_pre.currentAction)
  /\ MvIsInitialized(mv_currentAction)
  /\ mv_armedAt = mv_frame.ts
  /\ mv_outMqtt = << >>

\* A moving command on the first frame the sample interval allows.
C36_WitnessMoving ==
  /\ MvProcessed
  /\ mv_outMqtt # << >>
  /\ MvElapsed = mv_pre.currentAction.time_between_actions

\* ---- C37: armed-window invariant of the transition engine ----

\* The engine holds one of the configured pairs.
TrArmedOnConfiguredPair ==
  \E i \in 1..Len(tr_options.actions_map) :
    tr_currentAction = tr_options.actions_map[i]

\* C37: with time_out_s > 0, at the end of every processed frame with a
\* non-empty detection the transition engine is either Idle with arm
\* timestamp 0, or armed on a configured pair that was armed less than
\* time_out_s before the frame.
C37_ArmedWindow ==
  (TrProcessed /\ tr_options.time_out_s > 0) =>
    \/ TrIdle
    \/ /\ TrArmedOnConfiguredPair
       /\ tr_startingGestureTime <= tr_frame.ts
       /\ tr_frame.ts - tr_startingGestureTime < tr_options.time_out_s

\* The engine is still armed on the last frame before its timeout.
C37_Witness ==
  /\ TrProcessed
  /\ tr_options.time_out_s > 0
  /\ tr_pre.currentAction.notEmpty
  /\ TrArmedOnConfiguredPair
  /\ tr_frame.ts - tr_startingGestureTime = tr_options.time_out_s - 1

\* The engine was armed, timed out on this frame and is Idle with time 0.
C37_WitnessIdle ==
  /\ TrProcessed
  /\ tr_pre.currentAction.notEmpty
  /\ tr_frame.ts - tr_pre.startingGestureTime >= tr_options.time_out_s
  /\ TrIdle

\* ---- C38: no re-arming on the frame that clears the engine ----

\* The frame found the engine armed and cleared it: the pair timed out or
\* its command was emitted.
TrClearingFrame ==
  /\ TrProcessed
  /\ tr_pre.currentAction.notEmpty
  /\ \/ tr_frame.ts - tr_pre.startingGestureTime >= tr_options.time_out_s
     \/ tr_outMqtt # << >>

\* C38: a frame on which the armed pair times out or fires leaves the
\* transition engine Idle, also when the frame's label is the start id of a
\* configured pair; the engine arms on that label only when a later frame
\* carries it, and then with that later frame's timestamp.
C38_NoRearmOnClearingFrame ==
  /\ TrClearingFrame => TrIdle
  /\ (TrProcessed /\ tr_currentAction.notEmpty /\ ~tr_pre.currentAction.notEmpty)
       => /\ tr_currentAction.startAction = tr_frame.label_id
          /\ tr_startingGestureTime = tr_frame.ts

\* The pair timed out on a frame carrying the start id of a configured
\* pair; the engine is Idle at the end of the frame.
C38_Witness ==
  /\ TrClearingFrame
  /\ tr_outMqtt = << >>
  /\ TrMatches(tr_frame.label_id) # {}
  /\ TrIdle

\* The pair fired on a frame whose label is also a configured start id.
C38_WitnessFired ==
  /\ TrClearingFrame
  /\ tr_outMqtt # << >>
  /\ TrMatches(tr_frame.label_id) # {}
  /\ TrIdle

\* A frame that found the engine Idle, not the first one, armed it.
C38_WitnessLater ==
  /\ TrProcessed
  /\ ~tr_pre.currentAction.notEmpty
  /\ tr_currentAction.notEmpty
  /\ tr_frame.ts > 1

\* ---- C39: no stale or duplicated commands ----

\* The member buffers between two Process calls.
BuffersEmpty ==
  /\ tr_mqttMessages = << >>
  /\ fx_mqttMessages = << >>
  /\ mv_mqttMessages = << >>

\* The commands the transition / fixed frame emitted.
TrBatch == IF tr_outMqtt = << >> THEN << >> ELSE tr_outMqtt[1].value
FxBatch == IF fx_outMqtt = << >> THEN << >> ELSE fx_outMqtt[1].value

\* C39: the pending message buffer of the fixed, moving and transition
\* engines is empty before and after every Process call; a call adds at most
\* one batch, the batch is not empty and holds exactly the commands the call
\* generated: the armed pair's command (transition), one command of an entry
\* configured for the frame's label (fixed), |count| commands of the armed
\* action (moving).  No command of an earlier call is delivered again.
C39_NoStaleCommands ==
  /\ BuffersEmpty
  /\ Len(tr_outMqtt) <= 1 /\ Len(fx_outMqtt) <= 1 /\ Len(mv_outMqtt) <= 1
  /\ tr_outMqtt # << >> =>
       TrBatch = << Mqtt_Message(tr_pre.currentAction.topic,
                                 tr_pre.currentAction.payload) >>
  /\ fx_outMqtt # << >> =>
       /\ Len(FxBatch) = 1
       /\ \E e \in FxEntries(FxLabel) : \E i \in DOMAIN e.mqtt_message :
            FxBatch[1] = e.mqtt_message[i]
  /\ mv_outMqtt # << >> =>
       /\ Len(MvBatch) = MvSteps
       /\ MvSteps > 0
       /\ \A i \in DOMAIN MvBatch :
            MvBatch[i].topic = mv_pre.currentAction.topic

\* The second firing of one hold of the fixed engine delivers one command:
\* the command of the first firing is not in the batch again.
C39_Witness ==
  /\ node = "fixed"
  /\ FxProcessed
  /\ Len(fx_hold.fires) >= 2
  /\ fx_hold.fires[Len(fx_hold.fires)] = fx_frame.ts
  /\ Len(FxBatch) = 1
  /\ fx_mqttMessages = << >>

\* A moving batch of several commands, emitted after an earlier frame.
C39_WitnessMoving ==
  /\ node = "moving"
  /\ MvProcessed
  /\ Len(MvBatch) >= 2
  /\ mv_mqttMessages = << >>

\* A transition command, with the buffer empty after the call.
C39_WitnessTransition ==
  /\ node = "transition"
  /\ Len(TrBatch) = 1
  /\ tr_frame.ts >= 3
  /\ tr_mqttMessages = << >>

\* ---- C40: the "empty" topic is the fixed engine's 'nothing selected' ----

\* The topic executeAction ends with when it runs on entry e in the frame:
\* the topic of the matching window of highest index, "empty" when no window
\* holds the angle, the entry's single topic when it has no angle
\* precondition.
FxSelectedTopic(e) ==
  IF e.has_landmark_id
    THEN IF FxMatching(e) = {} THEN "empty"
         ELSE e.mqtt_message[Highest(FxMatching(e))].topic
    ELSE e.mqtt_message[1].topic

\* The frame recorded a firing: lastGesture holds the frame's timestamp.
FxRecordedFiring ==
  /\ fx_lastGesture.notEmpty
  /\ fx_lastGesture.time = fx_frame.ts
  /\ fx_lastGesture.start_action = FxLabel

\* C40: executeAction emits a command and records the firing if and only if
\* the topic it selected differs from "empty"; no emitted command carries the
\* topic "empty", a firing is recorded exactly on the frames that emit, and
\* an action configured with the literal topic "empty" neither emits nor
\* records.
C40_SentinelTopic ==
  /\ \A e \in FxEntries(FxLabel) :
       FxEvaluates(e) =>
         /\ (fx_outMqtt # << >>) <=> (FxSelectedTopic(e) # "empty")
         /\ FxRecordedFiring <=> (FxSelectedTopic(e) # "empty")
         /\ fx_outMqtt # << >> =>
              fx_outMqtt[1].value[1].topic = FxSelectedTopic(e)
  /\ FxProcessed => (FxRecordedFiring <=> fx_outMqtt # << >>)
  /\ \A p \in DOMAIN fx_outMqtt : \A k \in DOMAIN fx_outMqtt[p].value :
       fx_outMqtt[p].value[k].topic # "empty"

\* A plain action configured with topic "empty" was evaluated: no command,
\* no firing on record.
C40_Witness ==
  \E e \in FxEntries(FxLabel) :
    /\ FxEvaluates(e)
    /\ ~e.has_landmark_id
    /\ e.mqtt_message[1].topic = "empty"
    /\ fx_outMqtt = << >>
    /\ ~fx_lastGesture.notEmpty
    /\ fx_frame.ts > 1

\* An angle on the shared bound of two windows, the second configured with
\* topic "empty": nothing is emitted although the first window matches.
C40_WitnessWindow ==
  \E e \in FxEntries(FxLabel) :
    /\ FxEvaluates(e)
    /\ e.has_landmark_id
    /\ Cardinality(FxMatching(e)) = 2
    /\ e.mqtt_message[1].topic # "empty"
    /\ FxSelectedTopic(e) = "empty"
    /\ fx_outMqtt = << >>

\* The same action emits and records when only its first window matches.
C40_WitnessEmits ==
  \E e \in FxEntries(FxLabel) :
    /\ FxEvaluates(e)
    /\ e.has_landmark_id
    /\ FxMatching(e) = { 1 }
    /\ fx_outMqtt # << >>
    /\ FxRecordedFiring

====
